---- MODULE Spec2Model ----
(***************************************************************************)
(* Model of iced_webview: the advanced WebView controller                  *)
(* (src/src/webview/advanced.rs) driving the Ultralight engine adapter     *)
(* (src/src/engines/ultralight.rs), with the ImageInfo frame type of       *)
(* src/src/lib.rs.  The browser backend itself (ul_next) is the            *)
(* environment: its loading flag, url and title change on their own, a     *)
(* view creation or a page load may fail, and locking a surface's pixels   *)
(* may yield nothing.  The backend answers url() and title() of a live    *)
(* view with a value (never with an error), and the viewport is wide       *)
(* enough for the debug assertion of new_view to hold.                     *)
(*                                                                         *)
(* A ViewId is a random usize: the model draws it from a small set, so     *)
(* that a repeated id, which the generator can produce, does occur.        *)
(***************************************************************************)
EXTENDS Integers, Sequences, FiniteSets, TLC

\* ---------------------------------------------------------------- bounds
\* ViewId is a usize drawn by rand::thread_rng().gen(); the model draws it
\* from 1..NumIds.
NumIds == 2
\* Cap on the number of views alive in the engine at once.
MaxViews == 2
\* Cap on the length of a run: commands and backend changes.  A run that keeps
\* the history of changes and notifications is one step longer.
MaxSteps == 3

\* ------------------------------------------------------ program constants
WIDTH == 800
HEIGHT == 800
DefaultWidth == 1920
DefaultHeight == 1080
\* new_view creates the backend view at (width + 10, height - 10)
SlantFix == 10
\* ScrollDelta::Lines is multiplied by 100
LineScroll == 100

Ids == 1..NumIds

\* Viewport sizes the host may report; every width is above 40, so that
\* the debug assertion of new_view (row_bytes / width == 4) holds.
Sizes == { [width |-> DefaultWidth, height |-> DefaultHeight],
           [width |-> 50, height |-> 20] }

\* Values the backend reports as url and title of a view.
Urls == {"", "a"}
Titles == {"", "t"}

PageTypes == {"Url", "Html"}

\* keyboard::Key values: the named keys and characters the translation table
\* lists, and what the host may send besides
NamedKeys == {"Control", "Shift", "Enter", "Tab", "Space", "ArrowDown", "ArrowLeft",
              "ArrowRight", "ArrowUp", "End", "Home", "Backspace", "Delete", "Insert",
              "Escape", "F1", "F2", "F3", "F4", "F5", "F6", "F7", "F8", "F9", "F10",
              "F11", "F12"}
\* (the backquote key is written "backquote": a TLA+ string cannot hold it)
CharKeys == {"a", "b", "c", "d", "e", "f", "g", "h", "i", "j", "k", "l", "m", "n", "o",
             "p", "q", "r", "s", "t", "u", "v", "w", "x", "y", "z", "0", "1", "2", "3",
             "4", "5", "6", "7", "8", "9", ",", ".", ";", "-", "_", "+", "=", "\\",
             "|", "backquote", "?", "/", ">", "<", "[", "]"}

Key(k, name) == [k |-> k, name |-> name]
NoKey == Key("None", "")

\* keyboard::Event as handle_keyboard_event passes it on: press, key, the ctrl
\* modifier and the literal text
KeyEvent(press, key, ctrl, text) == [press |-> press, key |-> key, ctrl |-> ctrl, text |-> text]

\* the keyboard events of the runs explored: 'a' pressed and an unidentified
\* key pressed
KeyEvents == { KeyEvent("Press", Key("Character", "a"), FALSE, "a"),
               KeyEvent("Press", Key("Unidentified", ""), FALSE, "") }

\* mouse::Event kinds, one per arm of handle_mouse_event
MouseEvents == {"ButtonReleased_Forward", "ButtonReleased_Back", "ButtonPressed_Left",
                "ButtonReleased_Left", "ButtonPressed_Right", "ButtonReleased_Right",
                "CursorMoved", "WheelScrolled", "CursorLeft", "CursorEntered",
                "ButtonPressed_Middle"}

\* the mouse events of the runs explored: a history button, a pointer button,
\* the cursor leaving and a button no arm handles
RunMouseEvents == {"ButtonReleased_Back", "ButtonPressed_Left", "CursorLeft",
                   "ButtonPressed_Middle"}

VARIABLES
  views,            \* Ultralight.views: Vec<View>
  view_size,        \* WebView.view_size
  urls,             \* WebView.urls: Vec<(ViewId, String)>
  titles,           \* WebView.titles: Vec<(ViewId, String)>
  on_close_view,    \* whether the callback is registered (Option is Some)
  on_create_view,
  on_url_change,
  on_title_change,
  tasks,            \* the notifications the last update call returned
  calls,            \* the per-view Engine calls the last update call issued
  ops,              \* the backend operations those calls performed
  panicked,         \* a panic (expect / assert / panic!) unwound the call
  last,             \* the step that led here: the Action and the id it names
  issued,           \* history: how often new_view has returned each id
  steps,            \* length of the run so far
  audit,            \* whether the run keeps the history below
  since,            \* history: per id, the url / title changes of the backend
                    \* and the notifications returned since the last
                    \* Action::Update
  image_call,       \* the arguments of a call of ImageInfo::new
  image,            \* what that call produced
  image_log,        \* history: the first buffer and the formats applied since
  reg_views,        \* Views.views: Vec<View>
  history,          \* Views.history: Vec<usize>
  returned,         \* what the last method of Views returned
  current_view_index, \* basic WebView.current_view_index: Option<usize>
  view_ids,         \* basic WebView.view_ids: Vec<ViewId>
  url,              \* basic WebView.url
  title,            \* basic WebView.title
  key_event,        \* the keyboard::Event last handed to handle_keyboard_event
  key_result,       \* what that call translated it to and returned
  mouse_event,      \* the mouse::Event and point last handed to handle_mouse_event
  mouse_result      \* what that call delivered to the backend and returned

vars == << views, view_size, urls, titles, on_close_view, on_create_view,
           on_url_change, on_title_change, tasks, calls, ops, panicked, last,
           issued, steps, audit, since, image_call, image, image_log,
           reg_views, history, returned, current_view_index, view_ids, url, title,
           key_event, key_result, mouse_event, mouse_result >>

callbacks == << on_close_view, on_create_view, on_url_change, on_title_change >>

imageVars == << image_call, image, image_log >>

registryVars == << reg_views, history, returned >>

basicVars == << current_view_index, view_ids, url, title >>

keyVars == << key_event, key_result >>

mouseVars == << mouse_event, mouse_result >>

\* the parts of the state an update call of the advanced WebView never touches
OtherParts == << imageVars, registryVars, basicVars, keyVars, mouseVars >>

\* ------------------------------------------------------------- ImageInfo
ImageInfoDefault ==
  [len |-> (WIDTH * HEIGHT) * 4, width |-> WIDTH, height |-> HEIGHT, kind |-> "blank"]

\* ImageInfo::new keeps the byte count of the buffer it is given and takes
\* width and height from its arguments; the Bgra arm reorders bytes inside each
\* 4-byte chunk and keeps the count.
ImageInfoNew(len, width, height) ==
  [len |-> len, width |-> width, height |-> height, kind |-> "content"]

\* assert_eq!(pixels.len() % 4, 0)
ImageInfoNewAsserts(len) == len % 4 = 0

\* The byte-level ImageInfo::new. A buffer is a sequence of bytes; the Bgra arm
\* rebuilds it chunk by chunk as [chunk[2], chunk[1], chunk[0], chunk[3]].
Formats == {"Rgba", "Bgra"}

\* (variant: the chunk is copied as it is)
BgraSourceAsIs(k) == k

\* position inside the source chunk of the byte written at position k (0..3)
BgraSource(k) == CASE k = 0 -> 2 [] k = 1 -> 1 [] k = 2 -> 0 [] OTHER -> 3

ConvertPixels(pixels, format) ==
  IF format = "Rgba"
  THEN pixels
  ELSE [i \in 1..Len(pixels) |->
          pixels[((i - 1) \div 4) * 4 + BgraSource((i - 1) % 4) + 1]]

NoImage == [tag |-> "none", pixels |-> << >>, width |-> 0, height |-> 0]

\* the failed assertion unwinds the call: no ImageInfo exists afterwards
ImageInfoNewBytes(pixels, format, width, height) ==
  IF ~ImageInfoNewAsserts(Len(pixels))
  THEN [NoImage EXCEPT !.tag = "panic"]
  ELSE [tag |-> "built", pixels |-> ConvertPixels(pixels, format),
        width |-> width, height |-> height]

\* ------------------------------------------------------------ Ultralight
\* Index of the first view carrying id, 0 when there is none
\* (self.views.iter().find(|view| view.id == id)).
\* (variant: an unknown id falls back to the first view)
GetViewIdxOrFirst(vs, id) ==
  IF \E i \in 1..Len(vs) : vs[i].id = id
  THEN CHOOSE i \in 1..Len(vs) :
         /\ vs[i].id = id
         /\ \A j \in 1..(i - 1) : vs[j].id # id
  ELSE IF Len(vs) > 0 THEN 1 ELSE 0

GetViewIdx(vs, id) ==
  IF \E i \in 1..Len(vs) : vs[i].id = id
  THEN CHOOSE i \in 1..Len(vs) :
         /\ vs[i].id = id
         /\ \A j \in 1..(i - 1) : vs[j].id # id
  ELSE 0

\* bytes a locked surface hands out
SurfaceLen(v) == (v.sw * v.sh) * 4

GetUrl(vs, id) ==
  LET i == GetViewIdx(vs, id)
  IN IF i # 0
     THEN [tag |-> "Success", val |-> vs[i].url]
     ELSE [tag |-> "IdDoesNotExist", val |-> ""]

GetTitle(vs, id) ==
  LET i == GetViewIdx(vs, id)
  IN IF i # 0
     THEN [tag |-> "Success", val |-> vs[i].title]
     ELSE [tag |-> "IdDoesNotExist", val |-> ""]

\* (variant: the frame is returned whether or not the view is loading)
GetViewAnyway(vs, id) ==
  LET i == GetViewIdx(vs, id)
  IN IF i # 0
     THEN [tag |-> "Success", frame |-> vs[i].last_frame]
     ELSE [tag |-> "IdDoesNotExist", frame |-> ImageInfoDefault]

\* Engine::get_view: the frame of the first view carrying id, NotLoaded while
\* that view is loading.
GetView(vs, id) ==
  LET i == GetViewIdx(vs, id)
  IN IF i # 0
     THEN IF vs[i].loading
          THEN [tag |-> "NotLoaded", frame |-> ImageInfoDefault]
          ELSE [tag |-> "Success", frame |-> vs[i].last_frame]
     ELSE [tag |-> "IdDoesNotExist", frame |-> ImageInfoDefault]

\* The View pushed by new_view.
NewView(id, size) ==
  [id |-> id, loading |-> FALSE, url |-> "", title |-> "",
   needs_paint |-> FALSE,
   sw |-> size.width + SlantFix, sh |-> size.height - SlantFix,
   last_frame |-> ImageInfoDefault]

\* (variant: only the first view carrying id is removed)
RemoveViewFirst(vs, id) ==
  LET i == GetViewIdx(vs, id)
  IN IF i = 0 THEN vs ELSE SubSeq(vs, 1, i - 1) \o SubSeq(vs, i + 1, Len(vs))

\* remove_view: self.views.retain(|view| view.id != id)
RemoveView(vs, id) == SelectSeq(vs, LAMBDA v : v.id # id)

\* (variant: the frames are left as they are)
RenderNothing(vs, size, lock) == [i \in 1..Len(vs) |-> [vs[i] EXCEPT !.needs_paint = FALSE]]

\* (variant: only the first view gets a new frame)
RenderFirst(vs, size, lock) ==
  [i \in 1..Len(vs) |->
     [vs[i] EXCEPT !.needs_paint = FALSE,
                   !.last_frame = IF lock[i] /\ i = 1
                                  THEN ImageInfoNew(SurfaceLen(vs[i]), size.width, size.height)
                                  ELSE @]]

\* render: renderer.render() paints and clears the needs-paint flag of every
\* view; then each view whose surface yields pixels gets a new last_frame.
Render(vs, size, lock) ==
  [i \in 1..Len(vs) |->
     [vs[i] EXCEPT !.needs_paint = FALSE,
                   !.last_frame = IF lock[i]
                                  THEN ImageInfoNew(SurfaceLen(vs[i]), size.width, size.height)
                                  ELSE @]]

\* request_render: marks the first view carrying id, then the first view
\* carrying id whose surface yields pixels gets a new last_frame.
RequestRenderTarget(vs, id, lock) ==
  IF \E i \in 1..Len(vs) : vs[i].id = id /\ lock[i]
  THEN CHOOSE i \in 1..Len(vs) :
         /\ vs[i].id = id /\ lock[i]
         /\ \A j \in 1..(i - 1) : ~(vs[j].id = id /\ lock[j])
  ELSE 0

\* (variant: every surface is painted, whatever the id)
RequestRenderUnchecked(vs, id, size, lock) == Render(vs, size, lock)

RequestRender(vs, id, size, lock) ==
  LET first == GetViewIdx(vs, id)
      target == RequestRenderTarget(vs, id, lock)
  IN IF first = 0
     THEN vs
     ELSE [i \in 1..Len(vs) |->
             [vs[i] EXCEPT
                !.needs_paint = IF i = first THEN TRUE ELSE @,
                !.last_frame = IF i = target
                               THEN ImageInfoNew(SurfaceLen(vs[i]), size.width, size.height)
                               ELSE @]]

\* iced_key_to_ultralight_key: no event for a missing or unidentified key and
\* for a key outside the tables; else the event type and its text.
NoKeyEvent == [ty |-> "None", text |-> ""]

KeyText(ev) ==
  IF ev.key.k = "Named"
  THEN IF ev.key.name = "Space" THEN " " ELSE ""
  ELSE ev.text

\* str::is_ascii; "e-acute" stands for the one-letter text U+00E9
NonAscii == {"e-acute"}
IsAscii(text) == text \notin NonAscii

\* (variant: every key yields an event)
IcedKeyToUltralightKeyAny(ev) ==
  [ty |-> IF ev.press = "Press" THEN "RawKeyDown" ELSE "KeyUp", text |-> KeyText(ev)]

IcedKeyToUltralightKey(ev) ==
  IF ev.key.k = "None" \/ ev.key.k = "Unidentified" THEN NoKeyEvent
  ELSE IF ev.key.k = "Named" /\ ev.key.name \notin NamedKeys THEN NoKeyEvent
  ELSE IF ev.key.k = "Character" /\ ev.key.name \notin CharKeys THEN NoKeyEvent
  ELSE [ty |-> IF ev.ctrl THEN "RawKeyDown"
               ELSE IF KeyText(ev) # "" /\ IsAscii(KeyText(ev)) /\ ev.press = "Press"
               THEN "Char"
               ELSE IF ev.press = "Press" THEN "RawKeyDown" ELSE "KeyUp",
        text |-> KeyText(ev)]

\* (variant: only the first view is resized)
ResizedFirst(vs, size) ==
  [i \in 1..Len(vs) |->
     IF i = 1 THEN [vs[i] EXCEPT !.sw = size.width, !.sh = size.height] ELSE vs[i]]

\* resize: every view and every surface is resized
Resized(vs, size) ==
  [i \in 1..Len(vs) |-> [vs[i] EXCEPT !.sw = size.width, !.sh = size.height]]

\* ------------------------------------------------- WebView (advanced.rs)
Note(kind, id, val) == [kind |-> kind, id |-> id, val |-> val]

UrlChanged(k) ==
  /\ on_url_change
  /\ LET engine_url == GetUrl(views, urls[k].id)
     IN engine_url.tag = "Success" /\ urls[k].val # engine_url.val

TitleChanged(k) ==
  /\ on_title_change
  /\ LET engine_title == GetTitle(views, titles[k].id)
     IN engine_title.tag = "Success" /\ titles[k].val # engine_title.val

\* (variant: the loop notifies and leaves the cache as it was)
DiffedUrlsStale == urls

\* the url cache after the "Check url & title for changes" loop
DiffedUrls ==
  [k \in 1..Len(urls) |->
     IF UrlChanged(k)
     THEN [id |-> urls[k].id, val |-> GetUrl(views, urls[k].id).val]
     ELSE urls[k]]

DiffedTitles ==
  [k \in 1..Len(titles) |->
     IF TitleChanged(k)
     THEN [id |-> titles[k].id, val |-> GetTitle(views, titles[k].id).val]
     ELSE titles[k]]

RECURSIVE UrlNotes(_)
UrlNotes(k) ==
  IF k = 0 THEN << >>
  ELSE IF UrlChanged(k)
       THEN Append(UrlNotes(k - 1), Note("url", urls[k].id, GetUrl(views, urls[k].id).val))
       ELSE UrlNotes(k - 1)

RECURSIVE TitleNotes(_)
TitleNotes(k) ==
  IF k = 0 THEN << >>
  ELSE IF TitleChanged(k)
       THEN Append(TitleNotes(k - 1),
                   Note("title", titles[k].id, GetTitle(views, titles[k].id).val))
       ELSE TitleNotes(k - 1)

\* the tasks pushed before the match on the action
DiffTasks == UrlNotes(Len(urls)) \o TitleNotes(Len(titles))

\* a per-view Engine call, and whether the Engine held a view with that id then
Call(fn, vs, id) == [fn |-> fn, id |-> id, live |-> GetViewIdx(vs, id) # 0]

Last(act, id) == [act |-> act, id |-> id]

\* history kept per id: uc / tc count the url / title changes of the backend,
\* un / tn the url / title notifications returned, uv / tv hold the value of
\* the latest notification; counts stop at 2 ("more than once")
NoHistory == [id \in Ids |-> [uc |-> 0, un |-> 0, uv |-> "", tc |-> 0, tn |-> 0, tv |-> ""]]

Plus(n, m) == IF n + m < 2 THEN n + m ELSE 2

\* the history at the start of a step: it restarts after an Action::Update
SinceTick == IF last.act = "Update" THEN NoHistory ELSE since

NotesOf(kind, id) == SelectSeq(DiffTasks, LAMBDA n : n.kind = kind /\ n.id = id)

\* the history after an update call, which returns DiffTasks
Noted ==
  [id \in Ids |->
     LET u == NotesOf("url", id)
         t == NotesOf("title", id)
     IN [SinceTick[id] EXCEPT
           !.un = Plus(@, Len(u)),
           !.uv = IF u # << >> THEN u[Len(u)].val ELSE @,
           !.tn = Plus(@, Len(t)),
           !.tv = IF t # << >> THEN t[Len(t)].val ELSE @]]

StepBound == IF audit THEN MaxSteps + 1 ELSE MaxSteps

Step(act, id) ==
  /\ ~panicked
  /\ steps < StepBound
  /\ steps' = steps + 1
  /\ last' = Last(act, id)
  /\ audit' = audit
  /\ since' = IF audit THEN Noted ELSE since
  /\ UNCHANGED OtherParts

\* a step of the backend, which changes field (uc or tc) of the view with id
BackendStep(id, field) ==
  /\ ~panicked
  /\ steps < StepBound
  /\ steps' = steps + 1
  /\ last' = Last("backend", 0)
  /\ audit' = audit
  /\ since' = IF audit /\ field # "none"
              THEN [SinceTick EXCEPT ![id][field] = Plus(@, 1)]
              ELSE IF audit THEN SinceTick ELSE since
  /\ UNCHANGED OtherParts

\* a backend operation on the view at position idx of views, which carries vid
Op(op, vs, idx) == [op |-> op, idx |-> idx, vid |-> vs[idx].id]

\* the backend operation of a call that looks the view up with get_view_mut(id)?
OpOn(op, vs, id) ==
  LET i == GetViewIdx(vs, id)
  IN IF i = 0 THEN << >> ELSE << Op(op, vs, i) >>

\* the view whose last_frame request_render replaced
PaintOp(vs, id, lock) ==
  LET target == RequestRenderTarget(vs, id, lock)
  IN IF GetViewIdx(vs, id) = 0 \/ target = 0
     THEN << >>
     ELSE << Op("lock_pixels", vs, target) >>

MarkOp(vs, id) == OpOn("set_needs_paint", vs, id)

\* what surface.lock_pixels() yields, view by view, during one Engine call
Locks(vs) == [1..Len(vs) -> BOOLEAN]

\* request_render locks only the surfaces of the views carrying id
LocksOf(vs, id) == {lock \in Locks(vs) : \A i \in 1..Len(vs) : vs[i].id # id => lock[i]}

\* handle_keyboard_event: the translated event, if any, goes to the first view
\* carrying id
KeyOps(vs, id, ev) ==
  IF IcedKeyToUltralightKey(ev).ty = "None" THEN << >>
  ELSE OpOn("fire_key_event", vs, id)

\* handle_mouse_event, arm by arm
MouseOps(vs, id, ev) ==
  CASE ev = "ButtonReleased_Forward" -> OpOn("go_forward", vs, id)
    [] ev = "ButtonReleased_Back" -> OpOn("go_back", vs, id)
    [] ev = "ButtonPressed_Left" -> OpOn("MouseDown_Left", vs, id)
    [] ev = "ButtonReleased_Left" -> OpOn("MouseUp_Left", vs, id)
    [] ev = "ButtonPressed_Right" -> OpOn("MouseDown_Right", vs, id)
    [] ev = "ButtonReleased_Right" -> OpOn("MouseUp_Right", vs, id)
    [] ev = "CursorMoved" -> OpOn("MouseMoved_None", vs, id)
    [] ev = "WheelScrolled" -> OpOn("fire_scroll_event", vs, id)
    [] ev = "CursorLeft" -> [i \in 1..Len(vs) |-> Op("unfocus", vs, i)]
    [] ev = "CursorEntered" -> [i \in 1..Len(vs) |-> Op("focus", vs, i)]
    [] OTHER -> << >>

\* (variant: the notification is a fixed message that names no view)
CreatedUnnamed(id) == IF on_create_view THEN << Note("created", 0, "") >> ELSE << >>

Closed(id) == IF on_close_view THEN << Note("closed", id, "") >> ELSE << >>
Created(id) == IF on_create_view THEN << Note("created", id, "") >> ELSE << >>

\* no call of ImageInfo::new is under study
ImageIdle ==
  /\ image_call = [pixels |-> << >>, format |-> "Rgba", width |-> 0, height |-> 0]
  /\ image = NoImage
  /\ image_log = [first |-> << >>, formats |-> << >>]

\* Option<T>: None is the empty sequence, Some(x) the sequence of x alone
None == << >>
Some(x) == << x >>

\* Views::new()
RegistryIdle ==
  /\ reg_views = << >>
  /\ history = << >>
  /\ returned = [fn |-> "new", val |-> None]

\* basic WebView::default()
BasicIdle ==
  /\ current_view_index = None
  /\ view_ids = << >>
  /\ url = ""
  /\ title = ""

\* handle_keyboard_event has not been called
KeyIdle ==
  /\ key_event = KeyEvent("Press", NoKey, FALSE, "")
  /\ key_result = [event |-> NoKeyEvent, ret |-> None]

\* handle_mouse_event has not been called
MouseIdle ==
  /\ mouse_event = [ev |-> "none", point |-> [x |-> 0, y |-> 0],
                    delta |-> [unit |-> "Pixels", x |-> 0, y |-> 0]]
  /\ mouse_result = [events |-> << >>, ret |-> None]

OtherPartsIdle == ImageIdle /\ RegistryIdle /\ BasicIdle /\ KeyIdle /\ MouseIdle

Init ==
  /\ views = << >>
  /\ view_size = [width |-> DefaultWidth, height |-> DefaultHeight]
  /\ urls = << >>
  /\ titles = << >>
  \* the host registers its callbacks before the first update; the runs
  \* explored register all four or none
  /\ on_close_view \in BOOLEAN
  /\ on_create_view = on_close_view
  /\ on_url_change = on_close_view
  /\ on_title_change = on_close_view
  /\ tasks = << >>
  /\ calls = << >>
  /\ ops = << >>
  /\ panicked = FALSE
  /\ last = Last("new", 0)
  /\ issued = [id \in Ids |-> 0]
  /\ steps = 0
  /\ audit = FALSE
  /\ since = NoHistory
  /\ OtherPartsIdle

\* A panic unwinds update: the caches keep what the diff loop wrote, the tasks
\* are never returned.
Panic(vs, cs, os) ==
  /\ panicked' = TRUE
  /\ views' = vs
  /\ tasks' = << >>
  /\ calls' = cs
  /\ ops' = os

\* Action::CreateView(page_type)
CreateView(page_type) ==
  /\ Step("CreateView", 0)
  /\ Len(views) < MaxViews
  /\ \E id \in Ids, created \in BOOLEAN, loaded \in BOOLEAN :
       LET vs1 == Append(views, NewView(id, view_size))
           load == IF page_type = "Url" THEN "load_url" ELSE "load_html"
       IN IF ~created
          THEN \* new_view returned None: expect("Failed to create new view")
               /\ Panic(views, << >>, << >>)
               /\ urls' = DiffedUrls
               /\ titles' = DiffedTitles
               /\ issued' = issued
          ELSE /\ urls' = Append(DiffedUrls, [id |-> id, val |-> ""])
               /\ titles' = Append(DiffedTitles, [id |-> id, val |-> ""])
               /\ issued' = [issued EXCEPT ![id] = @ + 1]
               /\ IF ~loaded
                  THEN \* goto returned None: expect("Failed to page type")
                       Panic(vs1, << Call("goto", vs1, id) >>, << >>)
                  ELSE /\ views' = vs1
                       /\ tasks' = DiffTasks \o Created(id)
                       /\ calls' = << Call("goto", vs1, id) >>
                       /\ ops' = OpOn(load, vs1, id)
                       /\ panicked' = FALSE
  /\ UNCHANGED << view_size, callbacks >>

\* Action::CloseView(id)
CloseView(id) ==
  /\ Step("CloseView", id)
  /\ views' = RemoveView(views, id)
  /\ urls' = SelectSeq(DiffedUrls, LAMBDA e : e.id # id)
  /\ titles' = SelectSeq(DiffedTitles, LAMBDA e : e.id # id)
  /\ tasks' = DiffTasks \o Closed(id)
  /\ calls' = << Call("remove_view", views, id) >>
  /\ ops' = << >>
  /\ UNCHANGED << view_size, callbacks, panicked, issued >>

\* The arms that call one per-view Engine method and then request_render.
PerView(act, fn, fnops, id) ==
  /\ Step(act, id)
  /\ \E lock \in LocksOf(views, id) :
       /\ views' = RequestRender(views, id, view_size, lock)
       /\ ops' = fnops \o MarkOp(views, id) \o PaintOp(views, id, lock)
  /\ urls' = DiffedUrls
  /\ titles' = DiffedTitles
  /\ tasks' = DiffTasks
  /\ calls' = << Call(fn, views, id), Call("request_render", views, id) >>
  /\ UNCHANGED << view_size, callbacks, panicked, issued >>

\* Action::GoBackward(id)
GoBackward(id) == PerView("GoBackward", "go_back", OpOn("go_back", views, id), id)

\* Action::GoForward(id)
GoForward(id) == PerView("GoForward", "go_forward", OpOn("go_forward", views, id), id)

\* Action::GoToUrl(id, url): load_url may fail, its result is dropped
GoToUrl(id) ==
  \E loaded \in BOOLEAN :
    PerView("GoToUrl", "goto", IF loaded THEN OpOn("load_url", views, id) ELSE << >>, id)

\* Action::Refresh(id)
Refresh(id) == PerView("Refresh", "refresh", OpOn("reload", views, id), id)

\* Action::SendKeyboardEvent(id, event)
SendKeyboardEvent(id, ev) ==
  PerView("SendKeyboardEvent", "handle_keyboard_event", KeyOps(views, id, ev), id)

\* Action::SendMouseEvent(id, event, point)
SendMouseEvent(id, ev) ==
  PerView("SendMouseEvent", "handle_mouse_event", MouseOps(views, id, ev), id)

\* Action::Update
Update ==
  /\ Step("Update", 0)
  /\ \E lock \in Locks(views) :
       /\ views' = Render(views, view_size, lock)
       /\ ops' = SelectSeq([i \in 1..Len(views) |->
                              [op |-> IF lock[i] THEN "lock_pixels" ELSE "none",
                               idx |-> i, vid |-> views[i].id]],
                           LAMBDA o : o.op # "none")
  /\ urls' = DiffedUrls
  /\ titles' = DiffedTitles
  /\ tasks' = DiffTasks
  /\ calls' = << >>
  /\ UNCHANGED << view_size, callbacks, panicked, issued >>

\* Action::Resize(size)
Resize(size) ==
  /\ Step("Resize", 0)
  /\ view_size' = size
  /\ views' = Resized(views, size)
  /\ urls' = DiffedUrls
  /\ titles' = DiffedTitles
  /\ tasks' = DiffTasks
  /\ calls' = << >>
  /\ ops' = [i \in 1..Len(views) |-> Op("resize", views, i)]
  /\ UNCHANGED << callbacks, panicked, issued >>

\* The image WebView::view(id) hands to the widget: the default image while
\* the Engine answers NotLoaded, else the frame the Engine returns.
Snapshot(vs, id) ==
  LET view == GetView(vs, id)
  IN IF view.tag = "Success" THEN view.frame ELSE ImageInfoDefault

\* WebView::view(id) reads the state and changes nothing; it panics when the
\* Engine does not know the id ("Requested Id does not exist").
ViewWidget(id) ==
  /\ ~panicked
  /\ steps < StepBound
  /\ panicked' = (GetView(views, id).tag = "IdDoesNotExist")
  /\ last' = IF panicked' THEN Last("view", id) ELSE last
  /\ UNCHANGED << views, view_size, urls, titles, callbacks, tasks, calls, ops,
                  issued, steps, audit, since, OtherParts >>

\* ------------------------------------------------------------ the backend
BackendLoading(i) ==
  /\ i \in 1..Len(views)
  /\ BackendStep(views[i].id, "none")
  /\ views' = [views EXCEPT ![i].loading = ~@]
  /\ UNCHANGED << view_size, urls, titles, callbacks, tasks, calls, ops, panicked, issued >>

BackendUrl(i, u) ==
  /\ i \in 1..Len(views)
  /\ BackendStep(views[i].id, "uc")
  /\ views[i].url # u
  /\ views' = [views EXCEPT ![i].url = u]
  /\ UNCHANGED << view_size, urls, titles, callbacks, tasks, calls, ops, panicked, issued >>

BackendTitle(i, t) ==
  /\ i \in 1..Len(views)
  /\ BackendStep(views[i].id, "tc")
  /\ views[i].title # t
  /\ views' = [views EXCEPT ![i].title = t]
  /\ UNCHANGED << view_size, urls, titles, callbacks, tasks, calls, ops, panicked, issued >>

Next ==
  \/ \E p \in PageTypes : CreateView(p)
  \/ \E id \in Ids : CloseView(id)
  \/ \E id \in Ids : GoBackward(id)
  \/ \E id \in Ids : GoForward(id)
  \/ \E id \in Ids : GoToUrl(id)
  \/ \E id \in Ids : Refresh(id)
  \/ \E id \in Ids, ev \in KeyEvents : SendKeyboardEvent(id, ev)
  \/ \E id \in Ids, ev \in RunMouseEvents : SendMouseEvent(id, ev)
  \/ Update
  \/ \E size \in Sizes : Resize(size)
  \/ \E id \in Ids : ViewWidget(id)
  \/ \E i \in 1..MaxViews : BackendLoading(i)
  \/ \E i \in 1..MaxViews, u \in Urls : BackendUrl(i, u)
  \/ \E i \in 1..MaxViews, t \in Titles : BackendTitle(i, t)

Spec == Init /\ [][Next]_vars

\* the same program, run with the history of changes and notifications
InitAudit ==
  /\ views = << >>
  /\ view_size = [width |-> DefaultWidth, height |-> DefaultHeight]
  /\ urls = << >>
  /\ titles = << >>
  /\ on_close_view \in BOOLEAN
  /\ on_create_view = on_close_view
  /\ on_url_change = on_close_view
  /\ on_title_change = on_close_view
  /\ tasks = << >>
  /\ calls = << >>
  /\ ops = << >>
  /\ panicked = FALSE
  /\ last = Last("new", 0)
  /\ issued = [id \in Ids |-> 0]
  /\ steps = 0
  /\ audit = TRUE
  /\ since = NoHistory
  /\ OtherPartsIdle

SpecAudit == InitAudit /\ [][Next]_vars

\* -------------------------------------------------------------- properties
HasId(vs, id) == \E i \in 1..Len(vs) : vs[i].id = id

Ids_of(es) == [k \in 1..Len(es) |-> es[k].id]

KindOf(ts, kind) == SelectSeq(ts, LAMBDA n : n.kind = kind)

PerViewActs == {"GoBackward", "GoForward", "GoToUrl", "Refresh", "SendKeyboardEvent",
                "SendMouseEvent"}

\* C1: no two live views share a ViewId, and an id new_view has returned once
\* is never returned again, also after the first view was closed.
C1_UniqueIds ==
  /\ \A i, j \in 1..Len(views) : i # j => views[i].id # views[j].id
  /\ \A id \in Ids : issued[id] <= 1

\* a step of update whose command names an id no live view carries
AbsentIdCommand ==
  /\ steps' = steps + 1
  /\ last'.act \in PerViewActs
  /\ ~HasId(views, last'.id)

C3_CallsNameLiveViews == \A k \in 1..Len(calls) : calls[k].live

\* C3 (amended): the controller hands the id of a command to the Engine
\* unchecked; the Engine looks it up on every call, so each backend operation
\* of a per-view call is applied to a view carrying the id the call names, and
\* a call naming an id that is not live applies none (focus and unfocus go to
\* all views whatever the id).
C3_EngineChecksId ==
  calls # << >> =>
    \A k \in 1..Len(ops) :
      ops[k].op \notin {"focus", "unfocus"} =>
        \E c \in 1..Len(calls) : calls[c].live /\ calls[c].id = ops[k].vid

\* Refresh named an id that no view carried while another view was live, and
\* no backend operation followed
C3_Witness ==
  /\ last.act = "Refresh"
  /\ Len(calls) = 2
  /\ ~calls[1].live
  /\ Len(views) > 0
  /\ ops = << >>

\* C4 (as stated): CloseView on an id that was issued and is no longer live (a
\* second CloseView of the same id) does not panic, emits no view-closed
\* notification and leaves the set of live views unchanged.
C4_SecondCloseSilent ==
  [][(/\ steps' = steps + 1
      /\ last'.act = "CloseView"
      /\ issued[last'.id] > 0
      /\ ~HasId(views, last'.id))
     => /\ ~panicked'
        /\ views' = views
        /\ KindOf(tasks', "closed") = << >>]_vars

\* the url of some live view carrying id is u
UrlOf(id, u) == \E i \in 1..Len(views) : views[i].id = id /\ views[i].url = u

TitleOf(id, t) == \E i \in 1..Len(views) : views[i].id = id /\ views[i].title = t

\* when an Action::Update returns, the notifications since the Update before it
\* match the changes of the backend since then: none for an id whose url (title)
\* did not change, exactly one, carrying the value the view now has, for an id
\* whose url (title) changed once
OncePerChange ==
  (audit /\ last.act = "Update" /\ on_url_change /\ on_title_change) =>
    \A id \in Ids :
      /\ since[id].uc = 0 => since[id].un = 0
      /\ since[id].uc = 1 =>
           since[id].un = 1 /\ (HasId(views, id) => UrlOf(id, since[id].uv))
      /\ since[id].tc = 0 => since[id].tn = 0
      /\ since[id].tc = 1 =>
           since[id].tn = 1 /\ (HasId(views, id) => TitleOf(id, since[id].tv))

\* C5: between two consecutive Action::Update commands, a view's url-changed
\* notification fires zero times when its url did not change and exactly once,
\* with the new url, when it changed exactly once; likewise for the title.
C5_OncePerChange == OncePerChange

\* the same, for runs in which new_view never returns an id twice
C5_OncePerChangeUniqueIds == (\A id \in Ids : issued[id] <= 1) => OncePerChange

\* view i is the one the Engine finds for id: the first that carries it
IsFirst(i, id) == views[i].id = id /\ \A j \in 1..(i - 1) : views[j].id # id

\* cache entry e of the urls differs from what the Engine reports for its id
UrlDiffers(e) ==
  on_url_change /\ \E i \in 1..Len(views) : IsFirst(i, e.id) /\ views[i].url # e.val

TitleDiffers(e) ==
  on_title_change /\ \E i \in 1..Len(views) : IsFirst(i, e.id) /\ views[i].title # e.val

\* entry e2 is entry e after the comparison: it holds the Engine's value when
\* the callback is registered and a view carries the id, else what it held
UrlSynced(e, e2) ==
  /\ e2.id = e.id
  /\ IF on_url_change /\ HasId(views, e.id)
     THEN \E i \in 1..Len(views) : IsFirst(i, e.id) /\ e2.val = views[i].url
     ELSE e2.val = e.val

TitleSynced(e, e2) ==
  /\ e2.id = e.id
  /\ IF on_title_change /\ HasId(views, e.id)
     THEN \E i \in 1..Len(views) : IsFirst(i, e.id) /\ e2.val = views[i].title
     ELSE e2.val = e.val

\* a step of update that returns (every command, Action::Update included)
UpdateCall == steps' = steps + 1 /\ last'.act # "backend" /\ ~panicked'

\* C6 (as stated): a command other than Action::Update returns no url or title
\* notification and leaves the cached urls and titles as they were.
C6_DiffOnlyOnTick ==
  [][(UpdateCall /\ last'.act \in PerViewActs \cup {"Resize"}) =>
       /\ KindOf(tasks', "url") = << >>
       /\ KindOf(tasks', "title") = << >>
       /\ urls' = urls
       /\ titles' = titles]_vars

\* C6 (amended): the comparison runs once per update call, whatever the
\* command: the call returns one url (title) notification per cache entry that
\* differs from the Engine's value and stores that value; beyond that, the
\* command itself returns no url or title notification and changes the caches
\* only in CloseView, which drops the entries of its id, and in CreateView,
\* which appends an empty entry for the new id.
C6_DiffOnEveryCall ==
  [][UpdateCall =>
       /\ Len(KindOf(tasks', "url")) = Cardinality({k \in 1..Len(urls) : UrlDiffers(urls[k])})
       /\ Len(KindOf(tasks', "title")) =
            Cardinality({k \in 1..Len(titles) : TitleDiffers(titles[k])})
       /\ IF last'.act = "CloseView"
          THEN /\ \A k \in 1..Len(urls') : urls'[k].id # last'.id
               /\ \A k \in 1..Len(titles') : titles'[k].id # last'.id
               /\ Len(urls') = Cardinality({k \in 1..Len(urls) : urls[k].id # last'.id})
               /\ Len(titles') = Cardinality({k \in 1..Len(titles) : titles[k].id # last'.id})
               /\ \A k2 \in 1..Len(urls') : \E k \in 1..Len(urls) : UrlSynced(urls[k], urls'[k2])
               /\ \A k2 \in 1..Len(titles') :
                    \E k \in 1..Len(titles) : TitleSynced(titles[k], titles'[k2])
          ELSE /\ Len(urls') = Len(urls) + (IF last'.act = "CreateView" THEN 1 ELSE 0)
               /\ Len(titles') = Len(titles) + (IF last'.act = "CreateView" THEN 1 ELSE 0)
               /\ \A k \in 1..Len(urls) : UrlSynced(urls[k], urls'[k])
               /\ \A k \in 1..Len(titles) : TitleSynced(titles[k], titles'[k])
               /\ last'.act = "CreateView" =>
                    /\ urls'[Len(urls')] = [id |-> views'[Len(views')].id, val |-> ""]
                    /\ titles'[Len(titles')] = [id |-> views'[Len(views')].id, val |-> ""]]_vars

\* GoToUrl on a live view returned a title notification
C6_Witness ==
  /\ last.act = "GoToUrl"
  /\ HasId(views, last.id)
  /\ ~panicked
  /\ KindOf(tasks, "title") # << >>

C8_OneClosedNote ==
  [][(UpdateCall /\ last'.act = "CloseView" /\ HasId(views, last'.id)) =>
       /\ on_close_view => KindOf(tasks', "closed") = << Note("closed", last'.id, "") >>
       /\ ~HasId(views', last'.id)
       /\ views' = SelectSeq(views, LAMBDA v : v.id # last'.id)
       /\ GetView(views', last'.id).tag = "IdDoesNotExist"
       /\ GetUrl(views', last'.id).tag = "IdDoesNotExist"
       /\ \A k \in 1..Len(urls') : urls'[k].id # last'.id]_vars

\* CloseView closed a live view, returned its notification and left another
\* view live
C8_Witness ==
  /\ last.act = "CloseView"
  /\ Len(calls) = 1
  /\ calls[1].live
  /\ KindOf(tasks, "closed") # << >>
  /\ Len(views) > 0

\* C9: while the view that a snapshot of id resolves to is loading, the
\* snapshot is the placeholder image, whatever commands and Updates have run
\* and whatever was painted into the view's frame meanwhile.
C9_LoadingShowsPlaceholder ==
  \A id \in Ids :
    (\E i \in 1..Len(views) : IsFirst(i, id) /\ views[i].loading) =>
      Snapshot(views, id) = ImageInfoDefault

\* an Update has painted the frame of a view that is loading
C9_Witness ==
  /\ last.act = "Update"
  /\ \E i \in 1..Len(views) :
       /\ IsFirst(i, views[i].id)
       /\ views[i].loading
       /\ views[i].last_frame.kind = "content"

\* the Update of this step locked the pixels of the view at position i
Painted(i) == \E k \in 1..Len(ops') : ops'[k].op = "lock_pixels" /\ ops'[k].idx = i

\* C10 (as stated): when an Action::Update returns, the snapshot of every view
\* that is not loading is a frame the Engine painted.
C10_TickPaints ==
  [][(UpdateCall /\ last'.act = "Update") =>
       \A i \in 1..Len(views') :
         ~views'[i].loading => Snapshot(views', views'[i].id).kind = "content"]_vars

\* C10 (amended): an Action::Update replaces the frame of every view whose
\* surface yields its pixels with the painted pixels, tagged with the current
\* view size, and keeps the frame of a view whose surface yields none; so the
\* snapshot of an id shows the painted frame once the view it resolves to is
\* not loading and its surface has yielded pixels.
C10_TickPaintsLocked ==
  [][(UpdateCall /\ last'.act = "Update") =>
       /\ Len(views') = Len(views)
       /\ \A i \in 1..Len(views) :
            /\ Painted(i) =>
                 views'[i].last_frame =
                   [len |-> (views[i].sw * views[i].sh) * 4, width |-> view_size.width,
                    height |-> view_size.height, kind |-> "content"]
            /\ ~Painted(i) => views'[i].last_frame = views[i].last_frame
            /\ (Painted(i) /\ IsFirst(i, views[i].id) /\ ~views[i].loading) =>
                 /\ Snapshot(views', views[i].id) = views'[i].last_frame
                 /\ Snapshot(views', views[i].id).kind = "content"]_vars

\* the first Update after CreateView painted the new view, which is not
\* loading, and its snapshot is no longer the placeholder
C10_Witness ==
  /\ last.act = "Update"
  /\ Len(views) = 1
  /\ ~views[1].loading
  /\ ops # << >>
  /\ Snapshot(views, views[1].id).kind = "content"
  /\ ~views[1].needs_paint

\* C11: every frame a view stores, and every image a snapshot returns, holds
\* exactly width * height * 4 bytes, whatever commands have run.
FrameFits(f) == f.len = (f.width * f.height) * 4

C11_FramesFit ==
  /\ \A i \in 1..Len(views) : FrameFits(views[i].last_frame)
  /\ \A id \in Ids : FrameFits(Snapshot(views, id))

\* ------------------------------------------------- ImageInfo::new, alone
\* The constructor applied to small buffers: Init draws the arguments of the
\* first call, ImageInfoNewCall runs it, ImageInfoNewAgain hands the pixels of
\* the image just built to a further call.
MaxLen == 8
MaxDim == 2
MaxPasses == 2

Bytes == {0, 255}

Buffers == UNION { [1..n -> Bytes] : n \in 0..MaxLen }

InitImage ==
  /\ views = << >>
  /\ view_size = [width |-> DefaultWidth, height |-> DefaultHeight]
  /\ urls = << >>
  /\ titles = << >>
  /\ on_close_view = FALSE
  /\ on_create_view = FALSE
  /\ on_url_change = FALSE
  /\ on_title_change = FALSE
  /\ tasks = << >>
  /\ calls = << >>
  /\ ops = << >>
  /\ panicked = FALSE
  /\ last = Last("new", 0)
  /\ issued = [id \in Ids |-> 0]
  /\ steps = 0
  /\ audit = FALSE
  /\ since = NoHistory
  /\ \E pixels \in Buffers, format \in Formats, width \in 0..MaxDim, height \in 0..MaxDim :
       /\ image_call = [pixels |-> pixels, format |-> format,
                        width |-> width, height |-> height]
       /\ image_log = [first |-> pixels, formats |-> << >>]
  /\ image = NoImage
  /\ RegistryIdle
  /\ BasicIdle
  /\ KeyIdle
  /\ MouseIdle

controllerVars ==
  << views, view_size, urls, titles, callbacks, tasks, calls, ops, panicked,
     last, issued, steps, audit, since >>

\* ImageInfo::new(pixels, format, width, height)
ImageInfoNewCall ==
  /\ image.tag = "none"
  /\ image' = ImageInfoNewBytes(image_call.pixels, image_call.format,
                                image_call.width, image_call.height)
  /\ image_log' = [image_log EXCEPT !.formats = Append(@, image_call.format)]
  /\ UNCHANGED << image_call, controllerVars, registryVars, basicVars, keyVars, mouseVars >>

\* the pixels of the image just built become the buffer of the next call
ImageInfoNewAgain(format) ==
  /\ image.tag = "built"
  /\ Len(image_log.formats) < MaxPasses
  /\ image_call' = [image_call EXCEPT !.pixels = image.pixels, !.format = format]
  /\ image' = NoImage
  /\ UNCHANGED << image_log, controllerVars, registryVars, basicVars, keyVars, mouseVars >>

NextImage ==
  \/ ImageInfoNewCall
  \/ \E format \in Formats : ImageInfoNewAgain(format)

SpecImage == InitImage /\ [][NextImage]_vars

\* C12: a buffer whose length differs from width * height * 4 is rejected by
\* the constructor: no image is built from it.
C12_MismatchRejected ==
  image.tag = "built" => Len(image.pixels) = (image.width * image.height) * 4

\* C13: the Bgra arm swaps bytes 0 and 2 of every 4-byte pixel and keeps bytes
\* 1 and 3, the length and the order of the pixels; the Rgba arm stores the
\* buffer as it is; two Bgra passes give back the first buffer.
C13_BgraSwapsRedBlue ==
  image.tag = "built" =>
    /\ Len(image.pixels) = Len(image_call.pixels)
    /\ image_call.format = "Rgba" => image.pixels = image_call.pixels
    /\ image_call.format = "Bgra" =>
         \A c \in 0..((Len(image_call.pixels) \div 4) - 1) :
           /\ image.pixels[4 * c + 1] = image_call.pixels[4 * c + 3]
           /\ image.pixels[4 * c + 2] = image_call.pixels[4 * c + 2]
           /\ image.pixels[4 * c + 3] = image_call.pixels[4 * c + 1]
           /\ image.pixels[4 * c + 4] = image_call.pixels[4 * c + 4]
    /\ image_log.formats = << "Bgra", "Bgra" >> => image.pixels = image_log.first

\* two Bgra passes over two pixels: bytes 0 and 2 differ in the first and are
\* equal in the second, so each pass changes the buffer
C13_Witness ==
  /\ image.tag = "built"
  /\ image_log.formats = << "Bgra", "Bgra" >>
  /\ Len(image_log.first) = 8
  /\ image_log.first[1] # image_log.first[3]
  /\ image_log.first[5] = image_log.first[7]
  /\ image_log.first[2] # image_log.first[4]
  /\ image_call.pixels # image.pixels

\* C14: right after a CreateView the frame of the new view is a blank
\* placeholder as wide and as high as the viewport of that moment, holding
\* width * height * 4 bytes, and is not zero-sized.
C14_PlaceholderOfViewportSize ==
  (last.act = "CreateView" /\ ~panicked) =>
    LET f == views[Len(views)].last_frame
    IN /\ f.kind = "blank"
       /\ f.width = view_size.width
       /\ f.height = view_size.height
       /\ f.len = (f.width * f.height) * 4
       /\ f.len > 0

\* a CreateView step in which new_view handed out no id
CreateFailed ==
  /\ steps' = steps + 1
  /\ last'.act = "CreateView"
  /\ issued' = issued

\* C15: when the Engine cannot create a view, CreateView does not panic,
\* registers no view and returns no view-created notification.
C15_CreateFailureReported ==
  [][CreateFailed =>
       /\ ~panicked'
       /\ views' = views
       /\ Ids_of(urls') = Ids_of(urls)
       /\ KindOf(tasks', "created") = << >>]_vars

\* --------------------------------------------------- Views (engines.rs)
\* The registry of views with its history of current ids. View::new draws the
\* id at random; the methods are called one at a time.
MaxHistory == 2

\* position (from 1) of the first view carrying id, 0 when there is none
ViewsPosition(vs, id) ==
  IF \E i \in 1..Len(vs) : vs[i].id = id
  THEN CHOOSE i \in 1..Len(vs) :
         /\ vs[i].id = id
         /\ \A j \in 1..(i - 1) : vs[j].id # id
  ELSE 0

\* get_current_id: Some(self.history.last()?.to_owned())
GetCurrentId(h) == IF h = << >> THEN None ELSE Some(h[Len(h)])

\* one call of a method of Views: what it returns, or that it panics
RegistryCall(fn, arg, val, panics) ==
  /\ ~panicked
  /\ last' = Last(fn, arg)
  /\ panicked' = panics
  /\ returned' = [fn |-> fn, val |-> IF panics THEN None ELSE val]
  /\ UNCHANGED << views, view_size, urls, titles, callbacks, tasks, calls, ops,
                  issued, steps, audit, since, imageVars, basicVars, keyVars, mouseVars >>

\* insert(View::new(info))
ViewsInsert(id) ==
  /\ Len(reg_views) < MaxViews
  /\ RegistryCall("insert", id, Some(id), FALSE)
  /\ reg_views' = Append(reg_views, [id |-> id])
  /\ UNCHANGED history

\* set_current_id(id)
ViewsSetCurrentId(id) ==
  /\ Len(history) < MaxHistory
  /\ RegistryCall("set_current_id", id, None, FALSE)
  /\ history' = Append(history, id)
  /\ UNCHANGED reg_views

\* remove(id): returns the newly active view
ViewsRemove(id) ==
  LET h == SelectSeq(history, LAMBDA view_id : view_id # id)
  IN /\ RegistryCall("remove", id, GetCurrentId(h), FALSE)
     /\ history' = h
     /\ reg_views' = SelectSeq(reg_views, LAMBDA view : view.id # id)

\* get(id)
ViewsGet(id) ==
  LET i == ViewsPosition(reg_views, id)
  IN /\ RegistryCall("get", id, IF i = 0 THEN None ELSE Some(i), FALSE)
     /\ UNCHANGED << reg_views, history >>

\* get_mut(id): panic!("Unable to find view with id: {}", id)
ViewsGetMut(id) ==
  LET i == ViewsPosition(reg_views, id)
  IN /\ RegistryCall("get_mut", id, Some(i), i = 0)
     /\ UNCHANGED << reg_views, history >>

\* id_to_index(id): panic!("Id: {} was not found", id)
ViewsIdToIndex(id) ==
  LET i == ViewsPosition(reg_views, id)
  IN /\ RegistryCall("id_to_index", id, Some(i - 1), i = 0)
     /\ UNCHANGED << reg_views, history >>

\* index_to_id(index): panic!("Index {} was not found", index)
ViewsIndexToId(index) ==
  /\ RegistryCall("index_to_id", index,
                  IF index < Len(reg_views) THEN Some(reg_views[index + 1].id) ELSE None,
                  index >= Len(reg_views))
  /\ UNCHANGED << reg_views, history >>

\* get_current(): self.get(self.get_current_id()?)
ViewsGetCurrent ==
  LET cur == GetCurrentId(history)
      i == IF cur = None THEN 0 ELSE ViewsPosition(reg_views, cur[1])
  IN /\ RegistryCall("get_current", 0, IF i = 0 THEN None ELSE Some(i), FALSE)
     /\ UNCHANGED << reg_views, history >>

\* get_current_mut(): Some(self.get_mut(self.get_current_id()?))
ViewsGetCurrentMut ==
  LET cur == GetCurrentId(history)
      i == IF cur = None THEN 0 ELSE ViewsPosition(reg_views, cur[1])
  IN /\ RegistryCall("get_current_mut", 0, IF i = 0 THEN None ELSE Some(i),
                     cur # None /\ i = 0)
     /\ UNCHANGED << reg_views, history >>

InitViews ==
  /\ views = << >>
  /\ view_size = [width |-> DefaultWidth, height |-> DefaultHeight]
  /\ urls = << >>
  /\ titles = << >>
  /\ on_close_view = FALSE
  /\ on_create_view = FALSE
  /\ on_url_change = FALSE
  /\ on_title_change = FALSE
  /\ tasks = << >>
  /\ calls = << >>
  /\ ops = << >>
  /\ panicked = FALSE
  /\ last = Last("new", 0)
  /\ issued = [id \in Ids |-> 0]
  /\ steps = 0
  /\ audit = FALSE
  /\ since = NoHistory
  /\ ImageIdle
  /\ RegistryIdle
  /\ BasicIdle
  /\ KeyIdle
  /\ MouseIdle

NextViews ==
  \/ \E id \in Ids : ViewsInsert(id)
  \/ \E id \in Ids : ViewsSetCurrentId(id)
  \/ \E id \in Ids : ViewsRemove(id)
  \/ \E id \in Ids : ViewsGet(id)
  \/ \E id \in Ids : ViewsGetMut(id)
  \/ \E id \in Ids : ViewsIdToIndex(id)
  \/ \E index \in 0..MaxViews : ViewsIndexToId(index)
  \/ ViewsGetCurrent
  \/ ViewsGetCurrentMut

SpecViews == InitViews /\ [][NextViews]_vars

\* a lookup by an id the registry does not store
AbsentLookup ==
  /\ last' # last \/ returned' # returned \/ panicked' # panicked
  /\ last'.act \in {"get", "get_mut"}
  /\ \A i \in 1..Len(reg_views) : reg_views[i].id # last'.id

\* C16: get(id) and get_mut(id) never panic; for an id that is not stored each
\* returns None and leaves the registry as it was.
C16_LookupsNeverPanic ==
  [][/\ last'.act \in {"get", "get_mut"} => ~panicked'
     /\ AbsentLookup =>
          /\ returned'.val = None
          /\ reg_views' = reg_views
          /\ history' = history]_vars

\* C17: asking for the snapshot of an id no view carries does not panic and
\* does not hand out the frame of some other view.
C17_AbsentSnapshotClean ==
  /\ last.act = "view" => ~panicked
  /\ \A id \in Ids :
       ~HasId(views, id) => Snapshot(views, id) \notin {views[i].last_frame : i \in 1..Len(views)} \ {ImageInfoDefault}

\* ---------------------------------------------------- WebView (basic.rs)
\* The basic controller over the same Engine: it keeps the ids of its views in
\* view_ids and addresses the current one through current_view_index. Its
\* callbacks carry no id (the notes below carry 0), an Engine answer other than
\* Success reads as None.

\* get_current_view_id: both expects hold, and the id they yield
GetCurrentViewId ==
  IF current_view_index = None THEN [ok |-> FALSE, id |-> 0]
  ELSE IF current_view_index[1] >= Len(view_ids) THEN [ok |-> FALSE, id |-> 0]
  ELSE [ok |-> TRUE, id |-> view_ids[current_view_index[1] + 1]]

\* index_as_view_id(index)
IndexAsViewId(index) ==
  IF index >= Len(view_ids) THEN [ok |-> FALSE, id |-> 0]
  ELSE [ok |-> TRUE, id |-> view_ids[index + 1]]

\* Vec::remove(index) on view_ids, for an index in range
WithoutIndex(ids, index) == SubSeq(ids, 1, index) \o SubSeq(ids, index + 2, Len(ids))

\* the diff at the head of update looks the current id up once per registered
\* callback, and only when an index is set
BasicDiffPanics ==
  /\ current_view_index # None
  /\ on_url_change \/ on_title_change
  /\ ~GetCurrentViewId.ok

BasicUrlChanged ==
  /\ current_view_index # None
  /\ on_url_change
  /\ GetCurrentViewId.ok
  /\ GetUrl(views, GetCurrentViewId.id).tag = "Success"
  /\ GetUrl(views, GetCurrentViewId.id).val # url

BasicTitleChanged ==
  /\ current_view_index # None
  /\ on_title_change
  /\ GetCurrentViewId.ok
  /\ GetTitle(views, GetCurrentViewId.id).tag = "Success"
  /\ GetTitle(views, GetCurrentViewId.id).val # title

BasicDiffedUrl == IF BasicUrlChanged THEN GetUrl(views, GetCurrentViewId.id).val ELSE url

BasicDiffedTitle ==
  IF BasicTitleChanged THEN GetTitle(views, GetCurrentViewId.id).val ELSE title

BasicDiffTasks ==
  (IF BasicUrlChanged THEN << Note("url", 0, BasicDiffedUrl) >> ELSE << >>)
  \o (IF BasicTitleChanged THEN << Note("title", 0, BasicDiffedTitle) >> ELSE << >>)

BasicClosed == IF on_close_view THEN << Note("closed", 0, "") >> ELSE << >>
BasicCreated == IF on_create_view THEN << Note("created", 0, "") >> ELSE << >>

BasicStep(act) ==
  /\ ~panicked
  /\ steps < StepBound
  /\ steps' = steps + 1
  /\ last' = Last(act, 0)
  /\ UNCHANGED << urls, titles, issued, audit, since, callbacks, imageVars, registryVars,
                  keyVars, mouseVars >>

\* update returns normally
BasicDone(vs, ids, ts, cs, os) ==
  /\ panicked' = FALSE
  /\ views' = vs
  /\ view_ids' = ids
  /\ url' = BasicDiffedUrl
  /\ title' = BasicDiffedTitle
  /\ tasks' = BasicDiffTasks \o ts
  /\ calls' = cs
  /\ ops' = os

\* an expect inside the arm failed: what the diff and the arm wrote stays
BasicPanic(vs, ids, cs, os) ==
  /\ panicked' = TRUE
  /\ views' = vs
  /\ view_ids' = ids
  /\ url' = BasicDiffedUrl
  /\ title' = BasicDiffedTitle
  /\ tasks' = << >>
  /\ calls' = cs
  /\ ops' = os

\* an expect inside the diff failed: nothing was written
BasicDiffPanic ==
  /\ panicked' = TRUE
  /\ tasks' = << >>
  /\ calls' = << >>
  /\ ops' = << >>
  /\ UNCHANGED << views, view_ids, url, title, current_view_index, view_size >>

\* Action::ChangeView(index)
ChangeView(index) ==
  /\ BasicStep("ChangeView")
  /\ IF BasicDiffPanics
     THEN BasicDiffPanic
     ELSE /\ current_view_index' = Some(index)
          /\ BasicDone(views, view_ids, << >>, << >>, << >>)
          /\ UNCHANGED view_size

\* remove_view(id), then view_ids.remove(id): the ViewId serves as the index
BasicClose(act, cur) ==
  /\ BasicStep(act)
  /\ IF BasicDiffPanics
     THEN BasicDiffPanic
     ELSE /\ UNCHANGED << current_view_index, view_size >>
          /\ IF ~cur.ok
             THEN BasicPanic(views, view_ids, << >>, << >>)
             ELSE IF cur.id >= Len(view_ids)
             THEN BasicPanic(RemoveView(views, cur.id), view_ids,
                             << Call("remove_view", views, cur.id) >>, << >>)
             ELSE BasicDone(RemoveView(views, cur.id), WithoutIndex(view_ids, cur.id),
                            BasicClosed, << Call("remove_view", views, cur.id) >>, << >>)

\* Action::CloseCurrentView
CloseCurrentView == BasicClose("CloseCurrentView", GetCurrentViewId)

\* Action::CloseView(index)
BasicCloseView(index) == BasicClose("CloseView", IndexAsViewId(index))

\* Action::CreateView(page_type)
BasicCreateView(page_type) ==
  /\ BasicStep("CreateView")
  /\ Len(views) < MaxViews
  /\ IF BasicDiffPanics
     THEN BasicDiffPanic
     ELSE /\ UNCHANGED << current_view_index, view_size >>
          /\ \E id \in Ids, created \in BOOLEAN, loaded \in BOOLEAN :
               LET vs1 == Append(views, NewView(id, view_size))
                   load == IF page_type = "Url" THEN "load_url" ELSE "load_html"
               IN IF ~created
                  THEN BasicPanic(views, view_ids, << >>, << >>)
                  ELSE IF ~loaded
                  THEN BasicPanic(vs1, Append(view_ids, id),
                                  << Call("goto", vs1, id) >>, << >>)
                  ELSE BasicDone(vs1, Append(view_ids, id), BasicCreated,
                                 << Call("goto", vs1, id) >>, OpOn(load, vs1, id))

\* The arms that call one Engine method on the current view and then
\* request_render; fnops gives, per id, the backend operations of that method.
BasicPerView(act, fn, fnops) ==
  /\ BasicStep(act)
  /\ IF BasicDiffPanics
     THEN BasicDiffPanic
     ELSE /\ UNCHANGED << current_view_index, view_size >>
          /\ LET cur == GetCurrentViewId
             IN IF ~cur.ok
                THEN BasicPanic(views, view_ids, << >>, << >>)
                ELSE \E lock \in LocksOf(views, cur.id) :
                       BasicDone(RequestRender(views, cur.id, view_size, lock), view_ids,
                                 << >>,
                                 << Call(fn, views, cur.id),
                                    Call("request_render", views, cur.id) >>,
                                 fnops[cur.id] \o MarkOp(views, cur.id)
                                   \o PaintOp(views, cur.id, lock))

\* Action::GoBackward
BasicGoBackward ==
  BasicPerView("GoBackward", "go_back", [id \in Ids |-> OpOn("go_back", views, id)])

\* Action::GoForward
BasicGoForward ==
  BasicPerView("GoForward", "go_forward", [id \in Ids |-> OpOn("go_forward", views, id)])

\* Action::GoToUrl(url)
BasicGoToUrl ==
  \E loaded \in BOOLEAN :
    BasicPerView("GoToUrl", "goto",
                 [id \in Ids |-> IF loaded THEN OpOn("load_url", views, id) ELSE << >>])

\* Action::Refresh
BasicRefresh ==
  BasicPerView("Refresh", "refresh", [id \in Ids |-> OpOn("reload", views, id)])

\* Action::SendKeyboardEvent(event)
BasicSendKeyboardEvent(ev) ==
  BasicPerView("SendKeyboardEvent", "handle_keyboard_event",
               [id \in Ids |-> KeyOps(views, id, ev)])

\* Action::SendMouseEvent(event, point)
BasicSendMouseEvent(ev) ==
  BasicPerView("SendMouseEvent", "handle_mouse_event",
               [id \in Ids |-> MouseOps(views, id, ev)])

\* Action::Update
BasicUpdate ==
  /\ BasicStep("Update")
  /\ IF BasicDiffPanics
     THEN BasicDiffPanic
     ELSE /\ UNCHANGED << current_view_index, view_size >>
          /\ \E lock \in Locks(views) :
               BasicDone(Render(views, view_size, lock), view_ids, << >>, << >>,
                         SelectSeq([i \in 1..Len(views) |->
                                      [op |-> IF lock[i] THEN "lock_pixels" ELSE "none",
                                       idx |-> i, vid |-> views[i].id]],
                                   LAMBDA o : o.op # "none"))

\* Action::Resize(size)
BasicResize(size) ==
  /\ BasicStep("Resize")
  /\ IF BasicDiffPanics
     THEN BasicDiffPanic
     ELSE /\ view_size' = size
          /\ UNCHANGED current_view_index
          /\ BasicDone(Resized(views, size), view_ids, << >>, << >>,
                       [i \in 1..Len(views) |-> Op("resize", views, i)])

\* WebView::view() reads the state; it panics when there is no current view id
\* or the Engine has no view for it.
BasicViewPanics ==
  \/ ~GetCurrentViewId.ok
  \/ GetView(views, GetCurrentViewId.id).tag = "IdDoesNotExist"

BasicView ==
  /\ ~panicked
  /\ steps < StepBound
  /\ panicked' = BasicViewPanics
  /\ last' = IF panicked' THEN Last("view", 0) ELSE last
  /\ UNCHANGED << views, view_size, urls, titles, callbacks, tasks, calls, ops,
                  issued, steps, audit, since, OtherParts >>

InitBasic ==
  /\ views = << >>
  /\ view_size = [width |-> DefaultWidth, height |-> DefaultHeight]
  /\ urls = << >>
  /\ titles = << >>
  /\ on_close_view \in BOOLEAN
  /\ on_create_view = on_close_view
  /\ on_url_change = on_close_view
  /\ on_title_change = on_close_view
  /\ tasks = << >>
  /\ calls = << >>
  /\ ops = << >>
  /\ panicked = FALSE
  /\ last = Last("new", 0)
  /\ issued = [id \in Ids |-> 0]
  /\ steps = 0
  /\ audit = FALSE
  /\ since = NoHistory
  /\ ImageIdle
  /\ RegistryIdle
  /\ BasicIdle
  /\ KeyIdle
  /\ MouseIdle

NextBasic ==
  \/ \E index \in 0..(MaxViews - 1) : ChangeView(index)
  \/ CloseCurrentView
  \/ \E index \in 0..(MaxViews - 1) : BasicCloseView(index)
  \/ \E p \in PageTypes : BasicCreateView(p)
  \/ BasicGoBackward
  \/ BasicGoForward
  \/ BasicGoToUrl
  \/ BasicRefresh
  \/ \E ev \in KeyEvents : BasicSendKeyboardEvent(ev)
  \/ \E ev \in RunMouseEvents : BasicSendMouseEvent(ev)
  \/ BasicUpdate
  \/ \E size \in Sizes : BasicResize(size)
  \/ BasicView
  \/ \E i \in 1..MaxViews : BackendLoading(i)
  \/ \E i \in 1..MaxViews, u \in Urls : BackendUrl(i, u)
  \/ \E i \in 1..MaxViews, t \in Titles : BackendTitle(i, t)

SpecBasic == InitBasic /\ [][NextBasic]_vars

\* the commands of the basic WebView that act on the current view
CurrentViewActs == {"GoBackward", "GoForward", "GoToUrl", "Refresh", "SendKeyboardEvent",
                    "SendMouseEvent", "CloseCurrentView", "Update"}

\* such a command, or view(), issued while no index is set or no view exists
NoCurrentViewCommand ==
  /\ current_view_index = None \/ view_ids = << >>
  /\ \/ steps' = steps + 1 /\ last'.act \in CurrentViewActs
     \/ steps' = steps /\ last'.act = "view" /\ last' # last

\* C18: a command on the current view issued while there is no current view
\* does not panic and leaves the state of the controller as it was.
C18_NoCurrentViewIsNoOp ==
  [][NoCurrentViewCommand =>
       /\ ~panicked'
       /\ current_view_index' = current_view_index
       /\ view_ids' = view_ids
       /\ url' = url
       /\ title' = title
       /\ view_size' = view_size
       /\ Ids_of(views') = Ids_of(views)]_vars

\* a CloseCurrentView issued while the current index names a live view
ClosesCurrent ==
  /\ steps' = steps + 1
  /\ last'.act = "CloseCurrentView"
  /\ GetCurrentViewId.ok
  /\ HasId(views, GetCurrentViewId.id)

\* C19: CloseCurrentView closes the current view and makes a remaining view
\* (the most recently used one) the current view; when no view remains there
\* is no current view.
C19_CloseCurrentMovesOn ==
  [][ClosesCurrent =>
       /\ ~panicked'
       /\ ~HasId(views', GetCurrentViewId.id)
       /\ Len(view_ids') = Len(view_ids) - 1
       /\ \A k \in 1..Len(view_ids') : HasId(views', view_ids'[k])
       /\ IF view_ids' = << >>
          THEN current_view_index' = None
          ELSE /\ current_view_index' # None
               /\ current_view_index'[1] < Len(view_ids')]_vars

\* an update call that ran Action::Resize
Resizes == steps' = steps + 1 /\ last'.act = "Resize"

\* an update call that ran Action::CreateView and returned
Creates == steps' = steps + 1 /\ last'.act = "CreateView" /\ ~panicked'

\* every view that was live is still there, as wide and as high as the viewport
AllAtViewport ==
  /\ Ids_of(views') = Ids_of(views)
  /\ \A i \in 1..Len(views') :
       views'[i].sw = view_size'.width /\ views'[i].sh = view_size'.height

RunKeys == { Key("Named", "Space"), Key("Named", "Enter"), Key("Named", "CapsLock"),
             Key("Character", "a"), Key("Character", "]"), Key("Character", "!"),
             Key("Unidentified", "") }

\* the literal text iced attaches to a key press
RunTexts == {"", "a", "e-acute"}

\* keyboard::Event::KeyPressed, KeyReleased (no text) and ModifiersChanged
\* (no key, no text)
KeyInputs ==
  { KeyEvent("Press", key, ctrl, text) : key \in RunKeys, ctrl \in BOOLEAN, text \in RunTexts }
  \cup { KeyEvent("Unpress", key, ctrl, "") : key \in RunKeys, ctrl \in BOOLEAN }
  \cup { KeyEvent("Press", NoKey, ctrl, "") : ctrl \in BOOLEAN }

InitKey ==
  /\ views = << >>
  /\ view_size = [width |-> DefaultWidth, height |-> DefaultHeight]
  /\ urls = << >>
  /\ titles = << >>
  /\ on_close_view = FALSE
  /\ on_create_view = FALSE
  /\ on_url_change = FALSE
  /\ on_title_change = FALSE
  /\ tasks = << >>
  /\ calls = << >>
  /\ ops = << >>
  /\ panicked = FALSE
  /\ last = Last("new", 0)
  /\ issued = [id \in Ids |-> 0]
  /\ steps = 0
  /\ audit = FALSE
  /\ since = NoHistory
  /\ ImageIdle
  /\ RegistryIdle
  /\ BasicIdle
  /\ KeyIdle
  /\ MouseIdle

\* Ultralight::new_view(size), when the backend creates the view
EngineNewView(id) ==
  /\ Len(views) < MaxViews
  /\ views' = Append(views, NewView(id, view_size))
  /\ last' = Last("new_view", id)
  /\ ops' = << >>
  /\ UNCHANGED << view_size, urls, titles, callbacks, tasks, calls, panicked, issued,
                  steps, audit, since, imageVars, registryVars, basicVars, keyVars, mouseVars >>

\* Ultralight::handle_keyboard_event(id, event)
HandleKeyboardEvent(id, ev) ==
  LET key == IcedKeyToUltralightKey(ev)
  IN /\ key_event' = ev
     /\ key_result' = [event |-> key,
                       ret |-> IF key.ty # "None" /\ GetViewIdx(views, id) = 0
                               THEN None ELSE Some(TRUE)]
     /\ ops' = KeyOps(views, id, ev)
     /\ last' = Last("handle_keyboard_event", id)
     /\ UNCHANGED << views, view_size, urls, titles, callbacks, tasks, calls, panicked,
                     issued, steps, audit, since, imageVars, registryVars, basicVars,
                     mouseVars >>

NextKey ==
  \/ \E id \in Ids : EngineNewView(id)
  \/ \E id \in Ids, ev \in KeyInputs : HandleKeyboardEvent(id, ev)

SpecKey == InitKey /\ [][NextKey]_vars

\* the last call was handle_keyboard_event
KeyHandled == last.act = "handle_keyboard_event"

\* C21: 'a' pressed with the literal text "a" and no modifier gives a Char
\* event with the text "a"; the same press with Ctrl held gives a RawKeyDown
\* event with an empty text.
C21_CtrlDropsText ==
  (/\ KeyHandled
   /\ key_event.press = "Press"
   /\ key_event.key = Key("Character", "a")
   /\ key_event.text = "a") =>
     IF key_event.ctrl
     THEN key_result.event = [ty |-> "RawKeyDown", text |-> ""]
     ELSE key_result.event = [ty |-> "Char", text |-> "a"]

\* a keyboard event whose key has no mapping: no key (a modifier change), an
\* unidentified key, a named key or a character outside the tables
Unmapped(ev) ==
  \/ ev.key.k \in {"None", "Unidentified"}
  \/ ev.key.k = "Named" /\ ev.key.name \notin NamedKeys
  \/ ev.key.k = "Character" /\ ev.key.name \notin CharKeys

\* C22: the keyboard handler, given an event whose key has no mapping, makes no
\* event of it, fires nothing at the backend, returns Some(()) without a panic
\* and leaves the views as they were.
C22_UnmappedKeyDropped ==
  [][(last'.act = "handle_keyboard_event" /\ Unmapped(key_event')) =>
       /\ key_result'.event.ty = "None"
       /\ ops' = << >>
       /\ key_result'.ret = Some(TRUE)
       /\ ~panicked'
       /\ views' = views]_vars

\* a named key outside the table, handled for the id of a live view
C22_Witness ==
  /\ KeyHandled
  /\ key_event.key = Key("Named", "CapsLock")
  /\ HasId(views, last.id)
  /\ key_result.ret = Some(TRUE)
  /\ ops = << >>

\* an update call that ran Action::Update
Ticks == steps' = steps + 1 /\ last'.act = "Update" /\ ~panicked'

\* C23: on a Tick, a view that is loading is not painted, and the frame shown
\* for it is a placeholder as wide and as high as the viewport.
C23_LoadingNotPainted ==
  [][Ticks =>
       \A i \in 1..Len(views) :
         (views[i].loading /\ IsFirst(i, views[i].id)) =>
           /\ ~Painted(i)
           /\ views'[i].last_frame = views[i].last_frame
           /\ Snapshot(views', views[i].id).kind = "blank"
           /\ Snapshot(views', views[i].id).width = view_size.width
           /\ Snapshot(views', views[i].id).height = view_size.height]_vars

\* C24: on a Tick a view that is not loading is painted only if its
\* needs-paint flag is set or the Engine has a new frame: a view that the
\* previous Tick left clean is not painted again and keeps its last_frame; and
\* when a view is painted, last_frame is replaced and the flag is cleared.
C24_CleanViewNotPainted ==
  [][Ticks =>
       \A i \in 1..Len(views) :
         /\ (last.act = "Update" /\ ~views[i].loading /\ ~views[i].needs_paint) =>
              /\ ~Painted(i)
              /\ views'[i].last_frame = views[i].last_frame
         /\ Painted(i) =>
              /\ views'[i].last_frame.kind = "content"
              /\ ~views'[i].needs_paint]_vars

\* the step asked the surface of view i for pixels and got none: a Tick asks
\* every view, a per-view command asks the views that carry its id
PaintedNothing(i) ==
  \/ Ticks /\ ~Painted(i)
  \/ /\ UpdateCall
     /\ last'.act \in PerViewActs
     /\ last'.id = views[i].id
     /\ \A k \in 1..Len(ops') : ops'[k].op # "lock_pixels"

\* C25: when the paint of a view yields nothing, the view keeps the frame it
\* had and its needs-paint flag stays as it was when the paint was attempted
\* (set, after a per-view repaint request; unchanged, on a Tick).
C25_NothingPaintedNothingChanged ==
  [][\A i \in 1..Len(views) :
       PaintedNothing(i) =>
         /\ views'[i].last_frame = views[i].last_frame
         /\ views'[i].needs_paint =
              (IF Ticks THEN views[i].needs_paint
               ELSE (views[i].needs_paint \/ IsFirst(i, views[i].id)))]_vars

\* the frame half of C25 alone
C25_FrameKept ==
  [][\A i \in 1..Len(views) :
       PaintedNothing(i) => views'[i].last_frame = views[i].last_frame]_vars

\* a per-view command, which ends in request_render(id, view_size), ran for an
\* id the Engine holds
RepaintRequested ==
  /\ UpdateCall
  /\ last'.act \in PerViewActs
  /\ GetViewIdx(views, last'.id) # 0

\* C26: a forced repaint (request_render) of a live view always marks the view
\* and asks its surface for pixels, whether or not the view is loading and
\* whether or not its needs-paint flag was set: the view ends up marked, and
\* the surface that yielded pixels has them as its last_frame at viewport size.
C26_RequestRenderAlwaysPaints ==
  [][RepaintRequested =>
       LET first == GetViewIdx(views, last'.id)
       IN /\ views'[first].needs_paint
          /\ \E k \in 1..Len(ops') :
               ops'[k].op = "set_needs_paint" /\ ops'[k].idx = first
          /\ \A i \in 1..Len(views) :
               /\ Painted(i) =>
                    /\ views[i].id = last'.id
                    /\ views'[i].last_frame =
                         ImageInfoNew(SurfaceLen(views[i]), view_size.width, view_size.height)
               /\ ~Painted(i) => views'[i].last_frame = views[i].last_frame]_vars

\* a view that is loading has just been painted by a per-view command
C26_Witness ==
  /\ last.act \in PerViewActs
  /\ ~panicked
  /\ \E i \in 1..Len(views) :
       /\ views[i].id = last.id
       /\ views[i].loading
       /\ views[i].last_frame.kind = "content"
       /\ \E k \in 1..Len(ops) : ops[k].op = "lock_pixels" /\ ops[k].idx = i

\* C27: the needs-paint flag of a view is set after the CreateView that made
\* it, after a navigation command or an input event addressed to it, and after
\* a Resize.
C27_MarkedAfterCommands ==
  [][UpdateCall =>
       /\ (last'.act = "CreateView" /\ Len(views') = Len(views) + 1) =>
            views'[Len(views')].needs_paint
       /\ last'.act \in PerViewActs =>
            \A i \in 1..Len(views) :
              (views[i].id = last'.id /\ IsFirst(i, last'.id)) => views'[i].needs_paint
       /\ last'.act = "Resize" =>
            \A i \in 1..Len(views') : views'[i].needs_paint]_vars

\* the part of C27 that the per-view arms carry out
C27_MarkedAfterPerView ==
  [][(UpdateCall /\ last'.act \in PerViewActs) =>
       \A i \in 1..Len(views) :
         (views[i].id = last'.id /\ IsFirst(i, last'.id)) => views'[i].needs_paint]_vars

\* C28: a Tick renders every live view, not only one of them: after a Tick,
\* every view that is not loading and whose surface yielded pixels has those
\* pixels, at viewport size, as its last_frame.
C28_TickRendersEveryView ==
  [][Ticks =>
       /\ Len(views') = Len(views)
       /\ \A i \in 1..Len(views) :
            (~views[i].loading /\ Painted(i)) =>
              /\ views'[i].last_frame.kind = "content"
              /\ views'[i].last_frame =
                   ImageInfoNew(SurfaceLen(views[i]), view_size.width, view_size.height)]_vars

\* one Tick has just painted two views with different ids, neither loading
C28_Witness ==
  /\ last.act = "Update"
  /\ ~panicked
  /\ Len(views) = 2
  /\ views[1].id # views[2].id
  /\ \A i \in 1..2 :
       /\ ~views[i].loading
       /\ views[i].last_frame.kind = "content"
       /\ \E k \in 1..Len(ops) : ops[k].op = "lock_pixels" /\ ops[k].idx = i

\* Action::CloseView(id) has just run for an id the Engine held
ClosesLive ==
  /\ UpdateCall
  /\ last'.act = "CloseView"
  /\ HasId(views, last'.id)

\* the controller's record of id (its cached url and title) at the moment the
\* CloseView arm calls engine.remove_view(id): the diff loops have run, the
\* retain calls have not
RecordAtRemoveView(id) ==
  SelectSeq(DiffedUrls, LAMBDA e : e.id = id) \o SelectSeq(DiffedTitles, LAMBDA e : e.id = id)

\* no lookup by id finds a view or a cached url or title
Detached(vs, us, ts, id) ==
  /\ ~HasId(vs, id)
  /\ ~HasId(us, id)
  /\ ~HasId(ts, id)

ClosedId == 1

InitClosed ==
  /\ views = << >>
  /\ view_size = [width |-> DefaultWidth, height |-> DefaultHeight]
  /\ urls = << >>
  /\ titles = << >>
  /\ on_close_view = TRUE
  /\ on_create_view = TRUE
  /\ on_url_change = TRUE
  /\ on_title_change = TRUE
  /\ tasks = << Note("closed", ClosedId, "") >>
  /\ calls = << [fn |-> "remove_view", id |-> ClosedId, live |-> TRUE] >>
  /\ ops = << >>
  /\ panicked = FALSE
  /\ last = Last("CloseView", ClosedId)
  /\ issued = [id \in Ids |-> IF id = ClosedId THEN 1 ELSE 0]
  /\ steps = 0
  /\ audit = FALSE
  /\ since = NoHistory
  /\ OtherPartsIdle

SpecClosed == InitClosed /\ [][Next]_vars

\* new_view has returned id more often than views carry it now: a view with
\* this id was closed
WasClosed(id) == issued[id] > Cardinality({i \in 1..Len(views) : views[i].id = id})

\* the update call returns a url-changed or title-changed notification for id
Notifies(id) ==
  \E k \in 1..Len(tasks') : tasks'[k].kind \in {"url", "title"} /\ tasks'[k].id = id

\* C30: once CloseView(id) has been processed, no later command returns a
\* url-changed or title-changed notification carrying id.
C30_SilentAfterClose ==
  [][UpdateCall => \A id \in Ids : WasClosed(id) => ~Notifies(id)]_vars

\* C30 for the runs in which new_view never returns an id twice
C30_SilentAfterCloseUniqueIds ==
  [][(UpdateCall /\ \A id \in Ids : issued'[id] <= 1) =>
       \A id \in Ids : WasClosed(id) => ~Notifies(id)]_vars

\* C31: in the basic WebView, whatever CreateView, ChangeView, CloseView and
\* CloseCurrentView commands have run, current_view_index is unset or names a
\* position of view_ids.
C31_CurrentIndexValid ==
  current_view_index = None \/ current_view_index[1] < Len(view_ids)

\* a close command of the basic WebView has just removed a view from the Engine
BasicRemoved ==
  /\ steps' = steps + 1
  /\ last'.act \in {"CloseView", "CloseCurrentView"}
  /\ view_ids = Ids_of(views)
  /\ Len(views') < Len(views)

\* C32: in the basic WebView a close command removes from view_ids exactly the
\* entry of the view it removed from the Engine; the other entries stay, in
\* order, so that view_ids keeps listing exactly the views the Engine holds.
C32_ViewIdsFollowEngine ==
  [][BasicRemoved =>
       /\ ~panicked'
       /\ \E k \in 1..Len(view_ids) :
            /\ ~HasId(views', view_ids[k])
            /\ view_ids' = WithoutIndex(view_ids, k - 1)
       /\ view_ids' = Ids_of(views')]_vars

\* ------------------------------------- the basic WebView with one view open
\* The basic controller after its first update(Action::CreateView(Url(..)))
\* returned: one view, no current index yet.
InitBasicCreated ==
  /\ \E id \in Ids :
       /\ views = << NewView(id, [width |-> DefaultWidth, height |-> DefaultHeight]) >>
       /\ view_ids = << id >>
       /\ calls = << [fn |-> "goto", id |-> id, live |-> TRUE] >>
       /\ ops = << [op |-> "load_url", idx |-> 1, vid |-> id] >>
  /\ view_size = [width |-> DefaultWidth, height |-> DefaultHeight]
  /\ urls = << >>
  /\ titles = << >>
  /\ on_close_view \in BOOLEAN
  /\ on_create_view = on_close_view
  /\ on_url_change = on_close_view
  /\ on_title_change = on_close_view
  /\ tasks = IF on_create_view THEN << Note("created", 0, "") >> ELSE << >>
  /\ panicked = FALSE
  /\ last = Last("CreateView", 0)
  /\ issued = [id \in Ids |-> 0]
  /\ steps = 0
  /\ audit = FALSE
  /\ since = NoHistory
  /\ current_view_index = None
  /\ url = ""
  /\ title = ""
  /\ ImageIdle
  /\ RegistryIdle
  /\ KeyIdle
  /\ MouseIdle

SpecBasicCreated == InitBasicCreated /\ [][NextBasic]_vars

\* view_ids.get(index) for an optional index
CurrentIdIn(index, ids) ==
  IF index = None THEN [ok |-> FALSE, id |-> 0]
  ELSE IF index[1] >= Len(ids) THEN [ok |-> FALSE, id |-> 0]
  ELSE [ok |-> TRUE, id |-> ids[index[1] + 1]]

\* CloseView(index) has just removed a view from the Engine, and the view that
\* was current is still held by the Engine
ClosesOther ==
  /\ steps' = steps + 1
  /\ last'.act = "CloseView"
  /\ view_ids = Ids_of(views)
  /\ GetCurrentViewId.ok
  /\ Len(views') < Len(views)
  /\ HasId(views', GetCurrentViewId.id)

\* C33: in the basic WebView, closing a view other than the current one leaves
\* the ViewId of the current view as it was.
C33_CloseOtherKeepsCurrent ==
  [][ClosesOther =>
       /\ ~panicked'
       /\ CurrentIdIn(current_view_index', view_ids') = GetCurrentViewId]_vars

\* C34: in Views, whatever insert, set_current_id and remove calls have run,
\* the history names only views that are stored, so the current id is none or
\* the id of a stored view and get_current / get_current_mut do not panic.
C34_HistoryNamesStoredViews ==
  /\ \A k \in 1..Len(history) : HasId(reg_views, history[k])
  /\ last.act \in {"get_current", "get_current_mut"} => ~panicked

\* C38: a key release never translates to a key-down or a char event: for a
\* released key the translation yields a KeyUp event or no event, whatever the
\* modifiers, Ctrl included.
C38_ReleaseIsKeyUp ==
  (KeyHandled /\ key_event.press = "Unpress") =>
    key_result.event.ty \in {"KeyUp", "None"}

\* ------------------------------------------------- the named-key table
\* The VirtualKeyCode the match on keyboard::Key::Named pairs with each named
\* key; a named key outside the table makes the translation return None.
NamedVirtualKey(name) ==
  CASE name = "Control" -> "Control"
    [] name = "Shift" -> "Shift"
    [] name = "Enter" -> "Return"
    [] name = "Tab" -> "Tab"
    [] name = "Space" -> "Space"
    [] name = "ArrowDown" -> "Down"
    [] name = "ArrowLeft" -> "Right"
    [] name = "ArrowRight" -> "Up"
    [] name = "ArrowUp" -> "Left"
    [] name = "End" -> "End"
    [] name = "Home" -> "Home"
    [] name = "Backspace" -> "Back"
    [] name = "Delete" -> "Delete"
    [] name = "Insert" -> "Insert"
    [] name = "Escape" -> "Escape"
    [] name = "F1" -> "F1"
    [] name = "F2" -> "F2"
    [] name = "F3" -> "F3"
    [] name = "F4" -> "F4"
    [] name = "F5" -> "F5"
    [] name = "F6" -> "F6"
    [] name = "F7" -> "F7"
    [] name = "F8" -> "F8"
    [] name = "F9" -> "F9"
    [] name = "F10" -> "F10"
    [] name = "F11" -> "F11"
    [] name = "F12" -> "F12"
    [] OTHER -> "None"

\* the named keys handed to the translation: every key of the table and one
\* key outside it, pressed or released, with and without Ctrl
NamedKeyInputs ==
  { KeyEvent(press, Key("Named", name), ctrl, "") :
      press \in {"Press", "Unpress"}, name \in NamedKeys \cup {"CapsLock"}, ctrl \in BOOLEAN }

InitNamedKey ==
  /\ views = << >>
  /\ view_size = [width |-> DefaultWidth, height |-> DefaultHeight]
  /\ urls = << >>
  /\ titles = << >>
  /\ on_close_view = FALSE
  /\ on_create_view = FALSE
  /\ on_url_change = FALSE
  /\ on_title_change = FALSE
  /\ tasks = << >>
  /\ calls = << >>
  /\ ops = << >>
  /\ panicked = FALSE
  /\ last = Last("new", 0)
  /\ issued = [id \in Ids |-> 0]
  /\ steps = 0
  /\ audit = FALSE
  /\ since = NoHistory
  /\ ImageIdle
  /\ RegistryIdle
  /\ BasicIdle
  /\ key_event \in NamedKeyInputs
  /\ key_result = [event |-> NoKeyEvent, ret |-> None]
  /\ MouseIdle

\* iced_key_to_ultralight_key(press, modified_key, key, modifiers, text) for a
\* named key: the event made of it and the virtual key code put into it
TranslateNamedKey ==
  /\ last.act = "new"
  /\ last' = Last("iced_key_to_ultralight_key", 0)
  /\ key_result' = [event |-> IcedKeyToUltralightKey(key_event),
                    ret |-> None,
                    virtual_key_code |-> NamedVirtualKey(key_event.key.name)]
  /\ UNCHANGED << views, view_size, urls, titles, callbacks, tasks, calls, ops, panicked,
                  issued, steps, audit, since, imageVars, registryVars, basicVars,
                  key_event, mouseVars >>

SpecNamedKey == InitNamedKey /\ [][TranslateNamedKey]_vars

\* the translation has run and made an event of a named key
NamedKeyTranslated ==
  /\ last.act = "iced_key_to_ultralight_key"
  /\ key_result.event.ty # "None"

\* the virtual key code an arrow key stands for
ArrowDirection(name) ==
  CASE name = "ArrowLeft" -> "Left"
    [] name = "ArrowRight" -> "Right"
    [] name = "ArrowUp" -> "Up"
    [] name = "ArrowDown" -> "Down"

\* C39: the named-key table gives each arrow key the virtual key code of its
\* own direction, and no two named keys the same virtual key code.
C39_ArrowsAndDistinctCodes ==
  NamedKeyTranslated =>
    /\ key_event.key.name \in {"ArrowLeft", "ArrowRight", "ArrowUp", "ArrowDown"} =>
         key_result.virtual_key_code = ArrowDirection(key_event.key.name)
    /\ \A other \in NamedKeys \ {key_event.key.name} :
         NamedVirtualKey(other) # key_result.virtual_key_code

\* the second half of C39 alone: no two named keys share a virtual key code
C39_DistinctCodes ==
  NamedKeyTranslated =>
    \A other \in NamedKeys \ {key_event.key.name} :
      NamedVirtualKey(other) # key_result.virtual_key_code

\* ------------------------------------------------- the mouse handler
\* An f32 is written as a whole number of halves (3 stands for 1.5). `as i32`
\* drops the fraction, towards zero.
AsI32(h) == IF h >= 0 THEN h \div 2 ELSE -((-h) \div 2)

\* i32 arithmetic: whether the product of an i32 and LineScroll leaves the i32
\* range, and the value a build without overflow checks keeps (the product
\* less 2^32 = TwoTo32Quot * 100 + TwoTo32Rem, for a factor that wraps once)
I32Max == 2147483647
TwoTo32Quot == 42949672
TwoTo32Rem == 96
MulOverflows(n) == n > I32Max \div LineScroll \/ n < -(I32Max \div LineScroll)
WrappingMul(n) ==
  IF ~MulOverflows(n) THEN n * LineScroll
  ELSE IF n > 0 THEN (n - TwoTo32Quot) * LineScroll - TwoTo32Rem
  ELSE (n + TwoTo32Quot) * LineScroll + TwoTo32Rem

\* MouseEvent::new(ty, point.x as i32, point.y as i32, button)
PointerEvent(ty, point, button) ==
  [call |-> "fire_mouse_event", ty |-> ty, x |-> AsI32(point.x), y |-> AsI32(point.y),
   button |-> button]

\* scroll: ScrollEvent::new(ScrollByPixel, dx, dy) with dx, dy = x as i32 * 100
\* for a delta in lines and x as i32 for a delta in pixels
ScrollEventOf(delta) ==
  [call |-> "fire_scroll_event", ty |-> "ScrollByPixel",
   dx |-> IF delta.unit = "Lines" THEN WrappingMul(AsI32(delta.x)) ELSE AsI32(delta.x),
   dy |-> IF delta.unit = "Lines" THEN WrappingMul(AsI32(delta.y)) ELSE AsI32(delta.y)]

\* the multiplication of scroll leaves the i32 range
ScrollOverflows(delta) ==
  /\ delta.unit = "Lines"
  /\ MulOverflows(AsI32(delta.x)) \/ MulOverflows(AsI32(delta.y))

\* (variant: the forward and back buttons are passed on as pointer events)
MouseDeliveryPlain(m) ==
  CASE m.ev = "ButtonReleased_Forward" -> << PointerEvent("MouseUp", m.point, "Forward") >>
    [] m.ev = "ButtonReleased_Back" -> << PointerEvent("MouseUp", m.point, "Back") >>
    [] m.ev = "ButtonPressed_Left" -> << PointerEvent("MouseDown", m.point, "Left") >>
    [] m.ev = "ButtonReleased_Left" -> << PointerEvent("MouseUp", m.point, "Left") >>
    [] m.ev = "ButtonPressed_Right" -> << PointerEvent("MouseDown", m.point, "Right") >>
    [] m.ev = "ButtonReleased_Right" -> << PointerEvent("MouseUp", m.point, "Right") >>
    [] m.ev = "CursorMoved" -> << PointerEvent("MouseMoved", m.point, "None") >>
    [] m.ev = "WheelScrolled" -> << ScrollEventOf(m.delta) >>
    [] m.ev = "CursorLeft" -> << [call |-> "unfocus"] >>
    [] m.ev = "CursorEntered" -> << [call |-> "focus"] >>
    [] OTHER -> << >>

\* handle_mouse_event, arm by arm: what the call hands to the backend
MouseDelivery(m) ==
  CASE m.ev = "ButtonReleased_Forward" -> << [call |-> "go_forward"] >>
    [] m.ev = "ButtonReleased_Back" -> << [call |-> "go_back"] >>
    [] m.ev = "ButtonPressed_Left" -> << PointerEvent("MouseDown", m.point, "Left") >>
    [] m.ev = "ButtonReleased_Left" -> << PointerEvent("MouseUp", m.point, "Left") >>
    [] m.ev = "ButtonPressed_Right" -> << PointerEvent("MouseDown", m.point, "Right") >>
    [] m.ev = "ButtonReleased_Right" -> << PointerEvent("MouseUp", m.point, "Right") >>
    [] m.ev = "CursorMoved" -> << PointerEvent("MouseMoved", m.point, "None") >>
    [] m.ev = "WheelScrolled" -> << ScrollEventOf(m.delta) >>
    [] m.ev = "CursorLeft" -> << [call |-> "unfocus"] >>
    [] m.ev = "CursorEntered" -> << [call |-> "focus"] >>
    [] OTHER -> << >>

\* the arms that look the view up with get_view_mut(id)?
MouseNeedsView == {"ButtonReleased_Forward", "ButtonReleased_Back", "ButtonPressed_Left",
                   "ButtonReleased_Left", "ButtonPressed_Right", "ButtonReleased_Right",
                   "CursorMoved", "WheelScrolled"}

\* the events explored: those of MouseEvents and a press of the forward, back
\* and middle buttons, which no arm names
AllMouseEvents == MouseEvents \cup {"ButtonPressed_Forward", "ButtonPressed_Back"}

\* the points explored, (3.5, 2.0), and the scroll deltas: one line, half a
\* line, minus one and a half lines, and a count of lines whose hundredfold
\* leaves the i32 range
ScrollDeltas ==
  { [unit |-> u, x |-> a.x, y |-> a.y] :
      u \in {"Lines", "Pixels"},
      a \in { [x |-> 0, y |-> 2], [x |-> 0, y |-> 1], [x |-> -3, y |-> 0],
              [x |-> 0, y |-> 60000000] } }

MouseInputs ==
  { [ev |-> e, point |-> [x |-> 7, y |-> 4], delta |-> [unit |-> "Pixels", x |-> 0, y |-> 0]] :
      e \in AllMouseEvents \ {"WheelScrolled"} }
  \cup { [ev |-> "WheelScrolled", point |-> [x |-> 7, y |-> 4], delta |-> d] :
           d \in ScrollDeltas }

InitMouse ==
  /\ views = << >>
  /\ view_size = [width |-> DefaultWidth, height |-> DefaultHeight]
  /\ urls = << >>
  /\ titles = << >>
  /\ on_close_view = FALSE
  /\ on_create_view = FALSE
  /\ on_url_change = FALSE
  /\ on_title_change = FALSE
  /\ tasks = << >>
  /\ calls = << >>
  /\ ops = << >>
  /\ panicked = FALSE
  /\ last = Last("new", 0)
  /\ issued = [id \in Ids |-> 0]
  /\ steps = 0
  /\ audit = FALSE
  /\ since = NoHistory
  /\ OtherPartsIdle

\* Ultralight::handle_mouse_event(id, point, event). The scroll arm builds its
\* event before it looks the view up; a product outside the i32 range panics
\* in a build with overflow checks and wraps in one without.
HandleMouseEvent(id, m) ==
  /\ ~panicked
  /\ mouse_event' = m
  /\ last' = Last("handle_mouse_event", id)
  /\ \E checked \in BOOLEAN :
       IF m.ev = "WheelScrolled" /\ ScrollOverflows(m.delta) /\ checked
       THEN /\ panicked' = TRUE
            /\ mouse_result' = [events |-> << >>, ret |-> None]
            /\ ops' = << >>
       ELSE /\ panicked' = FALSE
            /\ (m.ev = "WheelScrolled" /\ ScrollOverflows(m.delta)) \/ checked
            /\ IF m.ev \in MouseNeedsView /\ GetViewIdx(views, id) = 0
               THEN /\ mouse_result' = [events |-> << >>, ret |-> None]
                    /\ ops' = << >>
               ELSE /\ mouse_result' = [events |-> MouseDelivery(m), ret |-> Some(TRUE)]
                    /\ ops' = MouseOps(views, id, m.ev)
  /\ UNCHANGED << views, view_size, urls, titles, callbacks, tasks, calls, issued, steps,
                  audit, since, imageVars, registryVars, basicVars, keyVars >>

\* Ultralight::render(size), called on its own
EngineRender ==
  /\ ~panicked
  /\ views # << >>
  /\ last' = Last("render", 0)
  /\ \E lock \in Locks(views) :
       /\ views' = Render(views, view_size, lock)
       /\ ops' = SelectSeq([i \in 1..Len(views) |->
                              [op |-> IF lock[i] THEN "lock_pixels" ELSE "none",
                               idx |-> i, vid |-> views[i].id]],
                           LAMBDA o : o.op # "none")
  /\ UNCHANGED << view_size, urls, titles, callbacks, tasks, calls, panicked, issued,
                  steps, audit, since, OtherParts >>

NextMouse ==
  \/ \E id \in Ids : EngineNewView(id)
  \/ \E id \in Ids, m \in MouseInputs : HandleMouseEvent(id, m)
  \/ EngineRender

SpecMouse == InitMouse /\ [][NextMouse]_vars

\* handle_mouse_event has just run for the id of a view the Engine holds
MouseHandled ==
  /\ last.act = "handle_mouse_event"
  /\ ~panicked
  /\ HasId(views, last.id)

\* the one backend operation op, on the first view carrying the addressed id
OnAddressed(op) ==
  ops = << [op |-> op, idx |-> GetViewIdx(views, last.id), vid |-> last.id] >>

\* the left and right buttons: one pointer event each, down for a press and up
\* for a release, with the button of the event and the point cut to integers
PointerButtonsExact ==
  /\ mouse_event.ev = "ButtonPressed_Left" =>
       /\ mouse_result.events = << [call |-> "fire_mouse_event", ty |-> "MouseDown",
                                    x |-> AsI32(mouse_event.point.x),
                                    y |-> AsI32(mouse_event.point.y), button |-> "Left"] >>
       /\ OnAddressed("MouseDown_Left")
  /\ mouse_event.ev = "ButtonReleased_Left" =>
       /\ mouse_result.events = << [call |-> "fire_mouse_event", ty |-> "MouseUp",
                                    x |-> AsI32(mouse_event.point.x),
                                    y |-> AsI32(mouse_event.point.y), button |-> "Left"] >>
       /\ OnAddressed("MouseUp_Left")
  /\ mouse_event.ev = "ButtonPressed_Right" =>
       /\ mouse_result.events = << [call |-> "fire_mouse_event", ty |-> "MouseDown",
                                    x |-> AsI32(mouse_event.point.x),
                                    y |-> AsI32(mouse_event.point.y), button |-> "Right"] >>
       /\ OnAddressed("MouseDown_Right")
  /\ mouse_event.ev = "ButtonReleased_Right" =>
       /\ mouse_result.events = << [call |-> "fire_mouse_event", ty |-> "MouseUp",
                                    x |-> AsI32(mouse_event.point.x),
                                    y |-> AsI32(mouse_event.point.y), button |-> "Right"] >>
       /\ OnAddressed("MouseUp_Right")

\* C35 (as stated): every mouse event of the forward or back button, press or
\* release, becomes go_forward / go_back on the addressed view and never a
\* pointer event; a press or release of the left or right button becomes
\* exactly one pointer down / up event with that button.
C35_HistoryButtonsNavigate ==
  MouseHandled =>
    /\ mouse_event.ev \in {"ButtonPressed_Forward", "ButtonReleased_Forward"} =>
         mouse_result.events = << [call |-> "go_forward"] >> /\ OnAddressed("go_forward")
    /\ mouse_event.ev \in {"ButtonPressed_Back", "ButtonReleased_Back"} =>
         mouse_result.events = << [call |-> "go_back"] >> /\ OnAddressed("go_back")
    /\ PointerButtonsExact

\* C35: the release of the forward or back button becomes go_forward / go_back
\* on the addressed view; the press of either is dropped; neither is ever
\* passed on as a pointer event. A press or release of the left or right
\* button becomes exactly one pointer down / up event with that button.
C35_HistoryButtonsNavigateOnRelease ==
  MouseHandled =>
    /\ mouse_event.ev = "ButtonReleased_Forward" =>
         mouse_result.events = << [call |-> "go_forward"] >> /\ OnAddressed("go_forward")
    /\ mouse_event.ev = "ButtonReleased_Back" =>
         mouse_result.events = << [call |-> "go_back"] >> /\ OnAddressed("go_back")
    /\ mouse_event.ev \in {"ButtonPressed_Forward", "ButtonPressed_Back"} =>
         mouse_result.events = << >> /\ ops = << >>
    /\ mouse_event.ev \in {"ButtonPressed_Forward", "ButtonReleased_Forward",
                           "ButtonPressed_Back", "ButtonReleased_Back"} =>
         \A k \in 1..Len(mouse_result.events) :
           mouse_result.events[k].call # "fire_mouse_event"
    /\ PointerButtonsExact

\* the back button was released over the second of two views and go_back went
\* to that view
C35_Witness ==
  /\ MouseHandled
  /\ mouse_event.ev = "ButtonReleased_Back"
  /\ Len(views) = 2
  /\ views[1].id # last.id
  /\ ops = << [op |-> "go_back", idx |-> 2, vid |-> last.id] >>
  /\ mouse_result.ret = Some(TRUE)

\* render runs right after a pointer motion was handled for a view
PaintAfterMotion ==
  /\ last.act = "handle_mouse_event"
  /\ mouse_event.ev = "CursorMoved"
  /\ mouse_result.ret = Some(TRUE)
  /\ last'.act = "render"

\* C36: pointer motion leaves a tracked pointer position with the view, and
\* immediately before each paint of the view a "moved" event carrying that
\* position is delivered to the backend.
C36_MotionReplayedBeforePaint ==
  [][PaintAfterMotion =>
       \A i \in 1..Len(views) :
         (IsFirst(i, last.id) /\ Painted(i)) =>
           \E k, n \in 1..Len(ops') :
             /\ k < n
             /\ ops'[k].op = "MouseMoved_None" /\ ops'[k].idx = i
             /\ ops'[n].op = "lock_pixels" /\ ops'[n].idx = i]_vars

\* handle_mouse_event has just delivered a scroll event for a live view
Scrolled ==
  /\ MouseHandled
  /\ mouse_event.ev = "WheelScrolled"
  /\ Len(mouse_result.events) = 1

\* C37: a scroll delta of (x, y) lines reaches the backend as the pixel delta
\* (100 * x, 100 * y); a delta given in pixels reaches it unchanged (as whole
\* pixels). Deltas are counted in halves, so 100 * x is LineScroll * x / 2.
C37_LinesTimesHundred ==
  Scrolled =>
    LET d == mouse_event.delta
        e == mouse_result.events[1]
    IN /\ e.call = "fire_scroll_event"
       /\ d.unit = "Lines" =>
            /\ ~MulOverflows(AsI32(d.x)) => 2 * e.dx = LineScroll * d.x
            /\ ~MulOverflows(AsI32(d.y)) => 2 * e.dy = LineScroll * d.y
            /\ MulOverflows(AsI32(d.x)) => (e.dx > 0) = (d.x > 0)
            /\ MulOverflows(AsI32(d.y)) => (e.dy > 0) = (d.y > 0)
       /\ d.unit = "Pixels" => e.dx = AsI32(d.x) /\ e.dy = AsI32(d.y)

\* C37 for deltas of whole lines whose hundredfold fits an i32
C37_WholeLinesTimesHundred ==
  Scrolled =>
    LET d == mouse_event.delta
        e == mouse_result.events[1]
    IN /\ e.call = "fire_scroll_event"
       /\ (d.unit = "Lines" /\ d.x % 2 = 0 /\ d.y % 2 = 0
           /\ ~MulOverflows(AsI32(d.x)) /\ ~MulOverflows(AsI32(d.y))) =>
            e.dx = LineScroll * AsI32(d.x) /\ e.dy = LineScroll * AsI32(d.y)
       /\ d.unit = "Pixels" => e.dx = AsI32(d.x) /\ e.dy = AsI32(d.y)

====
